---- MODULE Spec2Model ----
(***************************************************************************)
(* A model of the omu client/server core: the server's table broadcast,    *)
(* the client's table cache, pagination and proxies, the server's          *)
(* permission extension and its endpoint extension.                        *)
(***************************************************************************)
EXTENDS Integers, Sequences, FiniteSets, TLC

VARIABLES
    closed,          \* Session.closed, per session (the connection's closed flag)
    outbox,          \* per session: the packets the server has sent to it, in order
    received,        \* per session: how many packets of outbox its client has processed
    tableListeners,  \* per table: the sessions whose SessionTableListener is subscribed
    store,           \* per table: the server's items (key -> bytes), insertion ordered
    cache,           \* per client: TableImpl._cache (key -> item), insertion ordered
    events,          \* number of table mutation packets the server has handled
    last,            \* the handler that ran last, its arguments and its exception
    iter,            \* the local state of one TableImpl.iterate generator of client s1
    proxies,         \* per client: TableImpl._proxies, the proxy callbacks in order
    clientOut,       \* per client: the packets and endpoint calls it has sent, in order
    session_permissions,  \* PermissionExtension.session_permissions: token -> grant list
    permission_db,        \* the rows of the permissions table of permissions.db
    permission_registry,  \* the identifiers of PermissionExtension.permission_registry
    request_id,           \* PermissionExtension.request_id
    dashboard,            \* the requests made to the dashboard, in order, and their state
    ready,                \* per session: its ready tasks, TRUE once set
    disconnectReason,     \* per session: the reason it was disconnected with
    endpoints,            \* EndpointExtension._endpoints: identifier -> Endpoint
    _calls,               \* EndpointExtension._calls: (identifier, key) -> the caller's session
    dispatched,           \* the number of endpoint packets dispatched so far
    phase,                \* per connection: where its server task is (handshake, listen loop)
    authCalls,            \* per connection: the calls of security.authenticate_app made for it
    sessionObjs,          \* the connections for which a Session object was created
    emitted,              \* per session: the packets emitted to its listeners.packet, in order
    invocations,          \* the handler invocations of the dispatcher, in order
    _packet_listeners,    \* ServerPacketDispatcher._packet_listeners: identifier -> handlers
    packet_mapper,        \* the packet types registered in the dispatcher's PacketMapper
    disconnected,         \* per session: the events emitted to its listeners.disconnected
    _socket,              \* WebsocketsConnection._socket of one client: "None", "open", "closed"
    _connected,           \* WebsocketsConnection._connected of that client
    sending,              \* the client tasks suspended in _socket.send_bytes
    wire,                 \* what was written to the client's transport, in order
    _listeners,           \* per client: TableImpl._listeners, the listeners in order
    _listening,           \* per client: TableImpl._listening
    _config,              \* per client: TableImpl._config, "None" when not set
    _cache_size,          \* per client: TableImpl._cache_size
    notified,             \* per client: the listener calls of its table's last operation
    clientOps,            \* the number of operations and events of the clients' tables
    calling,              \* the handle_call coroutines suspended in SessionEndpoint.call's send
    issued,               \* the calls forwarded to session endpoints, in order, with their callers
    routed                \* the responses of session endpoints handled, in order, and who was sent each

permVars == <<session_permissions, permission_db, permission_registry, request_id,
              dashboard, ready, disconnectReason>>
endpointVars == <<endpoints, _calls, dispatched>>
sessionVars == <<phase, authCalls, sessionObjs, emitted, invocations, _packet_listeners,
                 packet_mapper, disconnected>>
connVars == <<_socket, _connected, sending, wire>>
netVars == <<sessionVars, connVars>>
clientVars == <<_listeners, _listening, _config, _cache_size, notified, clientOps>>
forwardVars == <<calling, issued, routed>>
vars == <<closed, outbox, received, tableListeners, store, cache, events, last, iter,
          proxies, clientOut, permVars, endpointVars, netVars, clientVars, forwardVars>>

(***************************************************************************)
(* Bounds of the model.                                                    *)
(***************************************************************************)
MaxEvents == 1
MaxItems == 3
MaxChunk == 2
MaxProxies == 2
MaxRequests == 2
MaxDispatched == 2

Sessions == {"s1", "s2", "s3"}
Tables == {"t1"}
KeyNames == <<"k1", "k2", "k3", "k4", "k5">>
Keys == {KeyNames[i] : i \in DOMAIN KeyNames}
Bodies == {"x", "y"}

(***************************************************************************)
(* Python's None, and exceptions.                                          *)
(***************************************************************************)
None == <<>>
NoKey == "None"
NoError == "none"

(***************************************************************************)
(* Items of a table and their serializer.  An item is <<key, body>>; its   *)
(* bytes are <<"bytes", key, body>>; any other byte string does not        *)
(* deserialize.                                                            *)
(***************************************************************************)
Items == Keys \X Bodies
serialize(item) == <<"bytes", item[1], item[2]>>
BadBlob == <<"bytes">>
deserialize(blob) == IF Len(blob) = 3 THEN <<blob[2], blob[3]>> ELSE None
key_function(item) == item[1]
Blobs == {serialize(i) : i \in Items} \cup {BadBlob}

(***************************************************************************)
(* Python dicts: a sequence of <<key, value>> pairs with distinct keys, in *)
(* insertion order.                                                        *)
(***************************************************************************)
DictKeys(d) == {d[i][1] : i \in DOMAIN d}
DictHas(d, k) == k \in DictKeys(d)
DictGet(d, k) == LET i == CHOOSE j \in DOMAIN d : d[j][1] = k IN d[i][2]
DictSet(d, k, v) ==
    IF DictHas(d, k)
    THEN [i \in DOMAIN d |-> IF d[i][1] = k THEN <<k, v>> ELSE d[i]]
    ELSE Append(d, <<k, v>>)
DictDel(d, k) == SelectSeq(d, LAMBDA e : e[1] # k)
RECURSIVE DictUpdate(_, _)
DictUpdate(d, e) ==
    IF e = <<>> THEN d
    ELSE DictUpdate(DictSet(d, e[1][1], e[1][2]), Tail(e))
RECURSIVE DictRemoveKeys(_, _)
DictRemoveKeys(d, e) ==
    IF e = <<>> THEN d
    ELSE DictRemoveKeys(DictDel(d, e[1][1]), Tail(e))

ValidDict(d) == \A i, j \in DOMAIN d : d[i][1] = d[j][1] => i = j

\* the items{key -> bytes} payloads that sessions send: the empty batch, a
\* well-formed item, bytes that do not deserialize, and a batch of two items
ItemMaps ==
    {<<>>,
     <<<<"k1", serialize(<<"k1", "x">>)>>>>,
     <<<<"k2", BadBlob>>>>,
     <<<<"k2", serialize(<<"k2", "y">>)>>, <<"k1", serialize(<<"k1", "y">>)>>>>}

(***************************************************************************)
(* The server's side of a table.                                           *)
(***************************************************************************)
TablePacket(type, id, items) == [type |-> type, table |-> id, items |-> items]

\* SessionTableListener.on_add .. on_clear: what the session's outbox is after the
\* listener of `session` for table `id` was called
on_add_wrong_type(session, id, items, box) ==
    IF closed[session] THEN box
    ELSE Append(box, TablePacket("item_update", id, items))
on_add(session, id, items, box) ==
    IF closed[session] THEN box
    ELSE Append(box, TablePacket("item_add", id, items))
on_update(session, id, items, box) ==
    IF closed[session] THEN box
    ELSE Append(box, TablePacket("item_update", id, items))
on_remove(session, id, items, box) ==
    IF closed[session] THEN box
    ELSE Append(box, TablePacket("item_remove", id, items))
on_clear(session, id, box) ==
    IF closed[session] THEN box
    ELSE Append(box, TablePacket("item_clear", id, <<>>))

\* the listeners the server calls for an event of table t that `sender` sent
RecipientsAll(t, sender) == tableListeners[t]
Recipients(t, sender) == tableListeners[t] \ {sender}

TableLast(op, s, t, items, exc) ==
    [op |-> op, session |-> s, table |-> t, items |-> items, exc |-> exc]

\* `last` after a step that no property looks at
Idle == [op |-> "idle"]

\* a session sends listen{table}: a SessionTableListener is subscribed for it
ServerHandleListen(s, t) ==
    /\ ~closed[s]
    /\ s \notin tableListeners[t]
    /\ tableListeners' = [tableListeners EXCEPT ![t] = @ \cup {s}]
    /\ last' = Idle
    /\ UNCHANGED <<closed, outbox, received, store, cache, events, iter, proxies, clientOut, permVars, endpointVars, netVars, clientVars, forwardVars>>

ServerHandleItemAdd(s, t, items) ==
    /\ ~closed[s]
    /\ events < MaxEvents
    /\ events' = events + 1
    /\ store' = [store EXCEPT ![t] = DictUpdate(@, items)]
    /\ outbox' = [r \in Sessions |->
                    IF r \in Recipients(t, s)
                    THEN on_add(r, t, items, outbox[r]) ELSE outbox[r]]
    /\ last' = TableLast("item_add", s, t, items, NoError)
    /\ UNCHANGED <<closed, received, tableListeners, cache, iter, proxies, clientOut, permVars, endpointVars, netVars, clientVars, forwardVars>>

ServerHandleItemUpdate(s, t, items) ==
    /\ ~closed[s]
    /\ events < MaxEvents
    /\ events' = events + 1
    /\ store' = [store EXCEPT ![t] = DictUpdate(@, items)]
    /\ outbox' = [r \in Sessions |->
                    IF r \in Recipients(t, s)
                    THEN on_update(r, t, items, outbox[r]) ELSE outbox[r]]
    /\ last' = TableLast("item_update", s, t, items, NoError)
    /\ UNCHANGED <<closed, received, tableListeners, cache, iter, proxies, clientOut, permVars, endpointVars, netVars, clientVars, forwardVars>>

ServerHandleItemRemove(s, t, items) ==
    /\ ~closed[s]
    /\ events < MaxEvents
    /\ events' = events + 1
    /\ store' = [store EXCEPT ![t] = DictRemoveKeys(@, items)]
    /\ outbox' = [r \in Sessions |->
                    IF r \in Recipients(t, s)
                    THEN on_remove(r, t, items, outbox[r]) ELSE outbox[r]]
    /\ last' = TableLast("item_remove", s, t, items, NoError)
    /\ UNCHANGED <<closed, received, tableListeners, cache, iter, proxies, clientOut, permVars, endpointVars, netVars, clientVars, forwardVars>>

ServerHandleItemClear(s, t) ==
    /\ ~closed[s]
    /\ events < MaxEvents
    /\ events' = events + 1
    /\ store' = [store EXCEPT ![t] = <<>>]
    /\ outbox' = [r \in Sessions |->
                    IF r \in Recipients(t, s)
                    THEN on_clear(r, t, outbox[r]) ELSE outbox[r]]
    /\ last' = TableLast("item_clear", s, t, <<>>, NoError)
    /\ UNCHANGED <<closed, received, tableListeners, cache, iter, proxies, clientOut, permVars, endpointVars, netVars, clientVars, forwardVars>>

\* the session's transport closes; the sessions that do
Closers == {"s2", "s3"}
ConnectionClose(s) ==
    /\ ~closed[s]
    /\ closed' = [closed EXCEPT ![s] = TRUE]
    /\ last' = Idle
    /\ UNCHANGED <<outbox, received, tableListeners, store, cache, events, iter, proxies, clientOut, permVars, endpointVars, netVars, clientVars, forwardVars>>

\* SessionTableListener.close, for every table, once the session is disconnected
SessionDisconnected(s) ==
    /\ closed[s]
    /\ \E t \in Tables : s \in tableListeners[t]
    /\ tableListeners' = [t \in Tables |-> tableListeners[t] \ {s}]
    /\ last' = Idle
    /\ UNCHANGED <<closed, outbox, received, store, cache, events, iter, proxies, clientOut, permVars, endpointVars, netVars, clientVars, forwardVars>>

(***************************************************************************)
(* The client's side of a table: one TableImpl per client, for TableKey(c). *)
(***************************************************************************)
TableKey(c) == IF c = "s3" THEN "t2" ELSE "t1"

ParseFails(items) == \E i \in DOMAIN items : deserialize(items[i][2]) = None
_parse_items(items) ==
    [i \in DOMAIN items |-> <<items[i][1], deserialize(items[i][2])>>]

\* what the four push handlers leave in the cache, and the exception they end with
\* _on_item_add that puts the items in the cache one by one until one fails
_on_item_add_partial(c, event) ==
    IF event.table # TableKey(c) THEN cache[c]
    ELSE LET bad == {i \in DOMAIN event.items : deserialize(event.items[i][2]) = None}
             n == IF bad = {} THEN Len(event.items)
                  ELSE (CHOOSE i \in bad : \A j \in bad : i <= j) - 1
         IN  DictUpdate(cache[c], _parse_items(SubSeq(event.items, 1, n)))
_on_item_add(c, event) ==
    IF event.table # TableKey(c) \/ ParseFails(event.items) THEN cache[c]
    ELSE DictUpdate(cache[c], _parse_items(event.items))
_on_item_update(c, event) ==
    IF event.table # TableKey(c) \/ ParseFails(event.items) THEN cache[c]
    ELSE DictUpdate(cache[c], _parse_items(event.items))
\* _on_item_remove that empties the cache
_on_item_remove_clears(c, event) ==
    IF event.table # TableKey(c) \/ ParseFails(event.items) THEN cache[c] ELSE <<>>
_on_item_remove(c, event) ==
    IF event.table # TableKey(c) \/ ParseFails(event.items) THEN cache[c]
    ELSE DictRemoveKeys(cache[c], _parse_items(event.items))
\* _on_item_clear without the test of the event's table
_on_item_clear_any_table(c, event) == <<>>
_on_item_clear(c, event) ==
    IF event.table # TableKey(c) THEN cache[c] ELSE <<>>
PushError(c, event) ==
    IF event.table = TableKey(c) /\ event.type # "item_clear" /\ ParseFails(event.items)
    THEN "ValueError" ELSE NoError

\* a call of a callback of a TableListener
ListenerCall(listener, callback, arg) ==
    [listener |-> listener, callback |-> callback, arg |-> arg]
\* the loop over _listeners of a push handler: each listener's callback of the
\* event, then its on_cache_update with the cache
NotifyEvent(c, callback, arg, cacheAfter) ==
    [j \in 1..(2 * Len(_listeners[c])) |->
        IF j % 2 = 1 THEN ListenerCall(_listeners[c][(j + 1) \div 2], callback, arg)
        ELSE ListenerCall(_listeners[c][j \div 2], "on_cache_update", cacheAfter)]
\* the loop over _listeners of fetch_items
NotifyCacheUpdate(c, cacheAfter) ==
    [i \in DOMAIN _listeners[c] |->
        ListenerCall(_listeners[c][i], "on_cache_update", cacheAfter)]

\* the cache that a push handler leaves
PushCache(c, event) ==
    CASE event.type = "item_add" -> _on_item_add(c, event)
      [] event.type = "item_update" -> _on_item_update(c, event)
      [] event.type = "item_remove" -> _on_item_remove(c, event)
      [] event.type = "item_clear" -> _on_item_clear(c, event)
\* the listener calls that a push handler makes
PushNotifications(c, event) ==
    IF event.table # TableKey(c) THEN <<>>
    ELSE IF event.type = "item_clear"
    THEN NotifyEvent(c, "on_clear", <<>>, PushCache(c, event))
    ELSE IF ParseFails(event.items) THEN <<>>
    ELSE NotifyEvent(c, CASE event.type = "item_add" -> "on_add"
                          [] event.type = "item_update" -> "on_update"
                          [] event.type = "item_remove" -> "on_remove",
                     _parse_items(event.items), PushCache(c, event))

\* the client's dispatcher takes the next packet the server sent and calls the
\* table's handler of the packet's type
ClientReceive(c) ==
    /\ received[c] < Len(outbox[c])
    /\ LET event == outbox[c][received[c] + 1] IN
        /\ event.type \in {"item_add", "item_update", "item_remove", "item_clear"}
        /\ cache' = [cache EXCEPT ![c] = PushCache(c, event)]
        /\ notified' = [notified EXCEPT ![c] = PushNotifications(c, event)]
        /\ last' = TableLast("client_" \o event.type, c, event.table, event.items,
                             PushError(c, event))
    /\ received' = [received EXCEPT ![c] = @ + 1]
    /\ UNCHANGED <<closed, outbox, tableListeners, store, events, iter, proxies, clientOut,
                   permVars, endpointVars, netVars, _listeners, _listening, _config,
                   _cache_size, clientOps, forwardVars>>

\* TableImpl.__init__: no listener, no config, the default cache size
DefaultCacheSize == 1000
\* no call is being forwarded and none was
ForwardIdle ==
    /\ calling = <<>>
    /\ issued = <<>>
    /\ routed = <<>>

ClientsIdle ==
    /\ _listeners = [s \in Sessions |-> <<>>]
    /\ _listening = [s \in Sessions |-> FALSE]
    /\ _config = [s \in Sessions |-> "None"]
    /\ _cache_size = [s \in Sessions |-> DefaultCacheSize]
    /\ notified = [s \in Sessions |-> <<>>]
    /\ clientOps = 0

\* the server's and the clients' tables right after construction
TablesIdle ==
    /\ closed = [s \in Sessions |-> FALSE]
    /\ outbox = [s \in Sessions |-> <<>>]
    /\ received = [s \in Sessions |-> 0]
    /\ tableListeners = [t \in Tables |-> {}]
    /\ cache = [s \in Sessions |-> <<>>]
    /\ events = 0
    /\ last = Idle
    /\ proxies = [s \in Sessions |-> <<>>]
    /\ clientOut = [s \in Sessions |-> <<>>]

\* the permission extension of a server that starts with an empty permissions.db
PermissionsIdle ==
    /\ request_id = 0
    /\ dashboard = <<>>
    /\ ready = [s \in Sessions |-> <<>>]
    /\ disconnectReason = [s \in Sessions |-> NoError]
    /\ session_permissions = <<>>
    /\ permission_db = <<>>
    /\ permission_registry = {}

\* the endpoint extension before any endpoint is bound
EndpointsIdle ==
    /\ endpoints = <<>>
    /\ _calls = <<>>
    /\ dispatched = 0

IterIdle ==
    iter = [pc |-> "idle", backward |-> FALSE, start |-> NoKey, chunk |-> MaxChunk,
            cursor |-> NoKey, items |-> <<>>, pos |-> 0, yielded |-> <<>>,
            fetches |-> 0]

\* no connection has been accepted, and the dispatcher has no packet type
SessionsIdle ==
    /\ phase = [s \in Sessions |-> "idle"]
    /\ authCalls = [s \in Sessions |-> <<>>]
    /\ sessionObjs = {}
    /\ emitted = [s \in Sessions |-> <<>>]
    /\ invocations = <<>>
    /\ _packet_listeners = <<>>
    /\ packet_mapper = {}
    /\ disconnected = [s \in Sessions |-> <<>>]

\* WebsocketsConnection.__init__
ConnectionIdle ==
    /\ _socket = "None"
    /\ _connected = FALSE
    /\ sending = {}
    /\ wire = <<>>

NetIdle == SessionsIdle /\ ConnectionIdle

TableInit ==
    /\ ClientsIdle
    /\ ForwardIdle
    /\ TablesIdle
    /\ NetIdle
    /\ PermissionsIdle
    /\ EndpointsIdle
    /\ store = [t \in Tables |-> <<>>]
    /\ IterIdle

TableNext ==
    \/ \E s \in Sessions, t \in Tables : ServerHandleListen(s, t)
    \/ \E s \in Sessions, t \in Tables, items \in ItemMaps : ServerHandleItemAdd(s, t, items)
    \/ \E s \in Sessions, t \in Tables, items \in ItemMaps : ServerHandleItemUpdate(s, t, items)
    \/ \E s \in Sessions, t \in Tables, items \in ItemMaps : ServerHandleItemRemove(s, t, items)
    \/ \E s \in Sessions, t \in Tables : ServerHandleItemClear(s, t)
    \/ \E s \in Closers : ConnectionClose(s)
    \/ \E s \in Sessions : SessionDisconnected(s)
    \/ \E c \in Sessions : ClientReceive(c)

SpecTable == TableInit /\ [][TableNext]_vars

(***************************************************************************)
(* Pagination: the server's item_fetch and the client's fetch_items and    *)
(* iterate.                                                                *)
(***************************************************************************)
Min(a, b) == IF a < b THEN a ELSE b
Max(a, b) == IF a > b THEN a ELSE b
Reverse(q) == [i \in 1..Len(q) |-> q[Len(q) + 1 - i]]
IndexOfKey(d, k) == CHOOSE i \in DOMAIN d : d[i][1] = k

\* item_fetch{table, before, after, cursor}; a count of 0 stands for None.  after:
\* up to `after` items that follow the cursor, in the store's order, from the
\* first item when there is no cursor; before: up to `before` items that precede
\* the cursor, nearest first, from the last item when there is no cursor.  A cursor
\* that is not in the store gives nothing.
ServerFetchItems(t, before, after, cursor) ==
    LET d == store[t]
        n == Len(d)
    IN  IF cursor # NoKey /\ ~DictHas(d, cursor) THEN <<>>
        ELSE IF after > 0
        THEN LET from == IF cursor = NoKey THEN 1 ELSE IndexOfKey(d, cursor) + 1
             IN SubSeq(d, from, Min(n, from + after - 1))
        ELSE IF before > 0
        THEN LET to == IF cursor = NoKey THEN n ELSE IndexOfKey(d, cursor) - 1
             IN Reverse(SubSeq(d, Max(1, to - before + 1), to))
        ELSE <<>>

IterClient == "s1"

\* TableImpl.fetch_items: the page it returns
fetch_items(c, before, after, cursor) ==
    _parse_items(ServerFetchItems(TableKey(c), before, after, cursor))
FetchFails(c, before, after, cursor) ==
    ParseFails(ServerFetchItems(TableKey(c), before, after, cursor))

\* a generator that passes no cursor to its next fetch_items
NextCursor_none(items) == NoKey

\* the cursor iterate passes to its next fetch_items, given the page it holds
NextCursor(items) == items[1][1]

\* one call of fetch_items by the generator, with `cursor`
IterFetch(cursor) ==
    LET before == IF iter.backward THEN iter.chunk ELSE 0
        after == IF iter.backward THEN 0 ELSE iter.chunk
    IN  IF FetchFails(IterClient, before, after, cursor)
        THEN /\ iter' = [iter EXCEPT !.pc = "error", !.cursor = cursor,
                                      !.fetches = @ + 1]
             /\ UNCHANGED <<cache, notified>>
        ELSE LET page == fetch_items(IterClient, before, after, cursor) IN
             /\ iter' = [iter EXCEPT !.pc = "page", !.cursor = cursor, !.items = page,
                                      !.pos = 0, !.fetches = @ + 1]
             /\ cache' = [cache EXCEPT ![IterClient] = DictUpdate(@, page)]
             /\ notified' = [notified EXCEPT ![IterClient] =
                    NotifyCacheUpdate(IterClient, DictUpdate(cache[IterClient], page))]

\* iterate(backward, cursor) is called and runs to its first fetch_items
IterStart(backward, cursor) ==
    /\ iter.pc = "idle"
    /\ LET before == IF backward THEN iter.chunk ELSE 0
           after == IF backward THEN 0 ELSE iter.chunk
       IN  IF FetchFails(IterClient, before, after, cursor)
           THEN /\ iter' = [iter EXCEPT !.pc = "error", !.backward = backward,
                                         !.start = cursor, !.cursor = cursor,
                                         !.fetches = 1]
                /\ UNCHANGED <<cache, notified>>
           ELSE LET page == fetch_items(IterClient, before, after, cursor) IN
                /\ iter' = [iter EXCEPT !.pc = "first_page", !.backward = backward,
                                         !.start = cursor, !.cursor = cursor,
                                         !.items = page, !.pos = 0, !.fetches = 1]
                /\ cache' = [cache EXCEPT ![IterClient] = DictUpdate(@, page)]
                /\ notified' = [notified EXCEPT ![IterClient] =
                       NotifyCacheUpdate(IterClient, DictUpdate(cache[IterClient], page))]
    /\ UNCHANGED <<closed, outbox, received, tableListeners, store, events, last, proxies,
                   clientOut, permVars, endpointVars, netVars, _listeners, _listening,
                   _config, _cache_size, clientOps, forwardVars>>

\* the generator yields the next item of the page it holds
IterYield ==
    /\ iter.pc \in {"first_page", "page"}
    /\ iter.pos < Len(iter.items)
    /\ iter' = [iter EXCEPT !.pos = @ + 1,
                            !.yielded = Append(@, iter.items[iter.pos + 1][2])]
    /\ UNCHANGED <<closed, outbox, received, tableListeners, store, cache, events, last, proxies, clientOut, permVars, endpointVars, netVars, clientVars, forwardVars>>

\* the page is exhausted: inside the loop the cursor is popped from the page; the
\* loop goes on with another fetch_items while the page is not empty
IterAdvance ==
    /\ iter.pc \in {"first_page", "page"}
    /\ iter.pos = Len(iter.items)
    /\ LET items == IF iter.pc = "page" THEN DictDel(iter.items, iter.cursor)
                    ELSE iter.items
       IN  IF Len(items) > 0
           THEN IterFetch(NextCursor(items))
           ELSE /\ iter' = [iter EXCEPT !.pc = "done", !.items = items]
                /\ UNCHANGED <<cache, notified>>
    /\ UNCHANGED <<closed, outbox, received, tableListeners, store, events, last, proxies,
                   clientOut, permVars, endpointVars, netVars, _listeners, _listening,
                   _config, _cache_size, clientOps, forwardVars>>

\* a server store of n well-formed items
StoreOf(n) == [i \in 1..n |-> <<KeyNames[i], serialize(<<KeyNames[i], "x">>)>>]

IterInit ==
    /\ ClientsIdle
    /\ ForwardIdle
    /\ TablesIdle
    /\ NetIdle
    /\ PermissionsIdle
    /\ EndpointsIdle
    /\ \E n \in 0..MaxItems : store = [t \in Tables |-> StoreOf(n)]
    /\ \E chunk \in 1..MaxChunk :
          iter = [pc |-> "idle", backward |-> FALSE, start |-> NoKey, chunk |-> chunk,
                  cursor |-> NoKey, items |-> <<>>, pos |-> 0, yielded |-> <<>>,
                  fetches |-> 0]

IterNext ==
    \/ \E backward \in BOOLEAN, cursor \in {NoKey, "k1", "k2"} :
            IterStart(backward, cursor)
    \/ IterYield
    \/ IterAdvance

SpecIter == IterInit /\ [][IterNext]_vars

\* C3: Pagination completeness: when iterate(backward=False, cursor=None) has
\* ended over a store of N items with page size P, it has yielded N items, each
\* item of the store exactly once, and has made ceil(N/P)+1 fetch_items calls.
C3_PaginationComplete ==
    (iter.pc = "done" /\ ~iter.backward /\ iter.start = NoKey) =>
        LET d == store[TableKey(IterClient)]
            N == Len(d)
        IN  /\ Len(iter.yielded) = N
            /\ \A i \in 1..N :
                  Cardinality({j \in DOMAIN iter.yielded :
                                 iter.yielded[j] = deserialize(d[i][2])}) = 1
            /\ iter.fetches = ((N + iter.chunk - 1) \div iter.chunk) + 1

MutationOps == {"item_add", "item_update", "item_remove", "item_clear"}

C2_AddReachesListeners ==
    [][/\ last'.op = "item_add" =>
            \A r \in Sessions \ {last'.session} :
                (r \in tableListeners[last'.table] /\ ~closed[r]) =>
                    outbox'[r] = Append(outbox[r],
                        TablePacket("item_add", last'.table, last'.items))
       /\ (/\ last'.op = "client_item_add"
           /\ last'.table = TableKey(last'.session)
           /\ ~ParseFails(last'.items)) =>
            \A i \in DOMAIN last'.items :
                /\ DictHas(cache'[last'.session], last'.items[i][1])
                /\ DictGet(cache'[last'.session], last'.items[i][1])
                     = deserialize(last'.items[i][2])]_vars

\* two listeners other than the sender were sent the item_add and one of them has
\* processed it into its cache
C2_Witness ==
    /\ last.op = "client_item_add"
    /\ last.exc = NoError
    /\ last.table = TableKey(last.session)
    /\ last.items # <<>>
    /\ \A i \in DOMAIN last.items :
          DictGet(cache[last.session], last.items[i][1]) = deserialize(last.items[i][2])
    /\ Cardinality({r \in Sessions :
            /\ Len(outbox[r]) = 1
            /\ outbox[r][1] = TablePacket("item_add", last.table, last.items)}) = 2


(***************************************************************************)
(* Table proxies on the client: TableImpl.proxy and TableImpl._on_proxy.   *)
(***************************************************************************)
\* the proxy callbacks of the model: what each returns for an item
ProxyFns == {"keep", "to_y", "drop_y", "filter", "rekey"}
CallProxy(p, item) ==
    CASE p = "keep" -> item
      [] p = "to_y" -> <<item[1], "y">>
      [] p = "drop_y" -> IF item[2] = "y" THEN None ELSE item
      [] p = "filter" -> IF item[2] = "y" THEN None ELSE <<item[1], "y">>
      [] p = "rekey" -> <<"k1", item[2]>>

\* the proxy payloads the server sends
ProxyItemMaps ==
    ItemMaps \cup
    {<<<<"k1", serialize(<<"k1", "x">>)>>, <<"k2", serialize(<<"k2", "y">>)>>>>,
     <<<<"k1", serialize(<<"k1", "y">>)>>, <<"k2", serialize(<<"k2", "x">>)>>>>}
TableProxyData(type, key, items) == [type |-> type, key |-> key, items |-> items]

\* the inner loop of _on_proxy for one proxy: `snapshot` is what is left of
\* list(items.items()), `items` the dict as updated so far
RECURSIVE ProxyLoopKeepDropped(_, _, _)
ProxyLoopKeepDropped(p, snapshot, items) ==
    IF snapshot = <<>> THEN items
    ELSE LET key == snapshot[1][1]
             updated_item == CallProxy(p, snapshot[1][2])
         IN  ProxyLoopKeepDropped(p, Tail(snapshot),
                IF updated_item = None THEN items
                ELSE DictSet(items, key, updated_item))
RECURSIVE ProxyLoop(_, _, _)
ProxyLoop(p, snapshot, items) ==
    IF snapshot = <<>> THEN items
    ELSE LET key == snapshot[1][1]
             updated_item == CallProxy(p, snapshot[1][2])
         IN  ProxyLoop(p, Tail(snapshot),
                IF updated_item = None THEN DictDel(items, key)
                ELSE DictSet(items, key, updated_item))

\* the outer loop: the dict after the proxies ps[n..], and the calls made, each
\* <<position of the proxy in _proxies, the item passed to it>>
RECURSIVE ProxiesLoop(_, _, _)
ProxiesLoop(ps, n, items) ==
    IF n > Len(ps) THEN [items |-> items, calls |-> <<>>]
    ELSE LET rest == ProxiesLoop(ps, n + 1, ProxyLoop(ps[n], items, items))
         IN  [items |-> rest.items,
              calls |-> [i \in DOMAIN items |-> <<n, items[i][2]>>] \o rest.calls]

\* TableImpl._serialize_items
RECURSIVE _serialize_items(_)
_serialize_items(values) ==
    IF values = <<>> THEN <<>>
    ELSE LET item == values[Len(values)]
         IN  DictSet(_serialize_items(SubSeq(values, 1, Len(values) - 1)),
                     key_function(item), serialize(item))
DictValues(d) == [i \in DOMAIN d |-> d[i][2]]

ProxyLast(c, event, handled, calls, exc) ==
    [op |-> "_on_proxy", session |-> c, event |-> event, handled |-> handled,
     calls |-> calls, exc |-> exc]

\* TableImpl.proxy(callback)
Proxy(c, p) ==
    /\ Len(proxies[c]) < MaxProxies
    /\ proxies' = [proxies EXCEPT ![c] = Append(@, p)]
    /\ last' = Idle
    /\ notified' = [notified EXCEPT ![c] = <<>>]
    /\ UNCHANGED <<closed, outbox, received, tableListeners, store, cache, events,
                   iter, clientOut, permVars, endpointVars, netVars, _listeners, _listening,
                   _config, _cache_size, clientOps, forwardVars>>

\* the function TableImpl.proxy returned is called: list.remove(callback)
Unproxy(c, p) ==
    /\ \E i \in DOMAIN proxies[c] : proxies[c][i] = p
    /\ LET i == CHOOSE i \in DOMAIN proxies[c] :
                    /\ proxies[c][i] = p
                    /\ \A j \in 1..(i - 1) : proxies[c][j] # p
       IN  proxies' = [proxies EXCEPT ![c] =
                          SubSeq(@, 1, i - 1) \o SubSeq(@, i + 1, Len(@))]
    /\ last' = Idle
    /\ notified' = [notified EXCEPT ![c] = <<>>]
    /\ UNCHANGED <<closed, outbox, received, tableListeners, store, cache, events,
                   iter, clientOut, permVars, endpointVars, netVars, _listeners, _listening,
                   _config, _cache_size, clientOps, forwardVars>>

\* TableImpl._on_proxy(event)
OnProxy(c, event) ==
    /\ events < MaxEvents
    /\ events' = events + 1
    /\ IF event.type # TableKey(c)
       THEN /\ last' = ProxyLast(c, event, FALSE, <<>>, NoError)
            /\ UNCHANGED clientOut
       ELSE IF ParseFails(event.items)
       THEN /\ last' = ProxyLast(c, event, TRUE, <<>>, "ValueError")
            /\ UNCHANGED clientOut
       ELSE LET run == ProxiesLoop(proxies[c], 1, _parse_items(event.items))
                serialized_items == _serialize_items(DictValues(run.items))
            IN  /\ last' = ProxyLast(c, event, TRUE, run.calls, NoError)
                /\ clientOut' = [clientOut EXCEPT ![c] = Append(@,
                        [type |-> "endpoint_call", endpoint |-> "table:proxy",
                         data |-> TableProxyData(TableKey(c), event.key,
                                                 serialized_items)])]
    /\ notified' = [notified EXCEPT ![c] = <<>>]
    /\ UNCHANGED <<closed, outbox, received, tableListeners, store, cache, iter, proxies, permVars, endpointVars, netVars, _listeners, _listening,
                   _config, _cache_size, clientOps, forwardVars>>

ProxyInit ==
    /\ ClientsIdle
    /\ ForwardIdle
    /\ TablesIdle
    /\ NetIdle
    /\ PermissionsIdle
    /\ EndpointsIdle
    /\ store = [t \in Tables |-> <<>>]
    /\ IterIdle

ProxyNext ==
    \/ \E p \in ProxyFns : Proxy("s1", p)
    \/ \E p \in ProxyFns : Unproxy("s1", p)
    \/ \E type \in {"t1", "t2"}, key \in {1, 2}, items \in ProxyItemMaps :
            OnProxy("s1", TableProxyData(type, key, items))

SpecProxy == ProxyInit /\ [][ProxyNext]_vars

\* what the proxies ps[1..n], applied in order, make of an item; None once one of
\* them returned nothing
RECURSIVE Through(_, _, _)
Through(ps, n, item) ==
    IF n = 0 THEN item
    ELSE LET before == Through(ps, n - 1, item)
         IN  IF before = None THEN None ELSE CallProxy(ps[n], before)
Survivors(ps, n, items) ==
    SelectSeq([i \in DOMAIN items |-> Through(ps, n, items[i])],
              LAMBDA x : x # None)

Identifier(namespace, path) == [namespace |-> namespace, path |-> path]
RECURSIVE JoinPath(_)
JoinPath(path) ==
    IF Len(path) = 0 THEN ""
    ELSE IF Len(path) = 1 THEN path[1]
    ELSE path[1] \o "/" \o JoinPath(Tail(path))
Identifier_key(id) == id.namespace \o ":" \o JoinPath(id.path)
IsPrefix(p, q) == Len(p) <= Len(q) /\ \A i \in DOMAIN p : p[i] = q[i]
is_subpart_of(id, base) == id.namespace = base.namespace /\ IsPrefix(base.path, id.path)

AppA == Identifier("a", <<"app">>)
AppB == Identifier("b", <<"app">>)
PermRead == Identifier("a", <<"app", "read">>)
PermWrite == Identifier("a", <<"app", "write">>)
PermB == Identifier("b", <<"app", "read">>)
PermissionIds == {PermRead, PermWrite, PermB}
Identifiers == PermissionIds \cup {AppA, AppB}
Identifier_from_key(k) == CHOOSE id \in Identifiers : Identifier_key(id) = k

\* s1 and s2 are two connections of app a with the same token; s3 is the
\* dashboard's connection, app b
Tokens == {"tk1", "tk2"}
session_app(s) == IF s = "s3" THEN AppB ELSE AppA
session_token(s) == IF s = "s3" THEN "tk2" ELSE "tk1"
is_dashboard(s) == s = "s3"

\* the identifier lists of permission_require packets
PermissionLists ==
    {<<>>, <<PermRead>>, <<PermRead, PermWrite>>, <<PermWrite, PermRead>>}
\* the permission lists of permission_register packets
RegisterLists == {<<PermRead, PermWrite>>, <<PermWrite, PermB>>, <<PermB>>}
SeqSet(q) == {q[i] : i \in DOMAIN q}

(***************************************************************************)
(* The permission extension of the server.                                 *)
(***************************************************************************)
json_dumps(keys) == <<"json", keys>>
json_loads(text) == text[2]

\* self.session_permissions.get(token, {})
GrantsOf(token) ==
    IF DictHas(session_permissions, token) THEN DictGet(session_permissions, token)
    ELSE <<>>

\* the rows (token, json of the identifiers' keys) that store_permissions writes
PermissionRows(permissions) ==
    [i \in DOMAIN permissions |->
        <<permissions[i][1],
          json_dumps([j \in DOMAIN permissions[i][2] |->
                         Identifier_key(permissions[i][2][j])])>>]

\* the rows of the database once every token's grant list is written and committed
store_permissions_no_commit(permissions) == permission_db
store_permissions(permissions) == DictUpdate(permission_db, PermissionRows(permissions))

\* the grant lists that a server starting on the rows of db loads
load_permissions(db) ==
    [i \in DOMAIN db |->
        <<db[i][1],
          [j \in DOMAIN json_loads(db[i][2]) |->
              Identifier_from_key(json_loads(db[i][2])[j])]>>]

\* set_permissions that stores the list for every token
set_permissions_all_tokens(token, permissions) ==
    DictSet(DictSet(session_permissions, "tk1", permissions), "tk2", permissions)
set_permissions(token, permissions) == DictSet(session_permissions, token, permissions)

has_permission(session, permission_id) ==
    IF is_dashboard(session) THEN TRUE
    ELSE permission_id \in SeqSet(GrantsOf(session_token(session)))

\* the test that opens handle_require
AlreadyGrantedAsList(session, permission_identifiers) ==
    permission_identifiers = GrantsOf(session_token(session))
AlreadyGranted(session, permission_identifiers) ==
    SeqSet(permission_identifiers) = SeqSet(GrantsOf(session_token(session)))

PermissionPacket(type, permissions) == [type |-> type, permissions |-> permissions]
PermLast(op, session, ids, exc) == [op |-> op, session |-> session, ids |-> ids, exc |-> exc]

\* the loop of handle_register: the registry it leaves and the exception it raises
\* a loop of handle_register without the test of the namespace
RegisterLoop_any_namespace(registry, app, permissions) ==
    [registry |-> registry \cup SeqSet(permissions), exc |-> NoError]
RECURSIVE RegisterLoop(_, _, _)
RegisterLoop(registry, app, permissions) ==
    IF permissions = <<>> THEN [registry |-> registry, exc |-> NoError]
    ELSE IF ~is_subpart_of(permissions[1], app)
         THEN [registry |-> registry, exc |-> "ValueError"]
         ELSE RegisterLoop(registry \cup {permissions[1]}, app, Tail(permissions))

HandleRegister(session, permissions) ==
    /\ ~closed[session]
    /\ LET r == RegisterLoop(permission_registry, session_app(session), permissions) IN
        /\ permission_registry' = r.registry
        /\ last' = PermLast("handle_register", session, permissions, r.exc)
    /\ UNCHANGED <<closed, outbox, received, tableListeners, store, cache, events, iter,
                   proxies, clientOut, session_permissions, permission_db, request_id,
                   dashboard, ready, disconnectReason, endpointVars, netVars, clientVars, forwardVars>>

\* handle_require up to its await of the dashboard's decision
HandleRequire(session, permission_identifiers) ==
    /\ ~closed[session]
    /\ IF AlreadyGranted(session, permission_identifiers)
       THEN /\ last' = PermLast("handle_require", session, permission_identifiers, NoError)
            /\ UNCHANGED <<request_id, dashboard, ready>>
       ELSE /\ request_id < MaxRequests
            /\ ready' = [ready EXCEPT ![session] = Append(@, FALSE)]
            /\ request_id' = request_id + 1
            /\ IF \E id \in SeqSet(permission_identifiers) : id \notin permission_registry
               THEN /\ last' = PermLast("handle_require", session,
                                        permission_identifiers, "ValueError")
                    /\ UNCHANGED dashboard
               ELSE /\ last' = PermLast("handle_require", session,
                                        permission_identifiers, NoError)
                    /\ dashboard' = Append(dashboard,
                          [id |-> request_id', session |-> session,
                           app |-> session_app(session),
                           permissions |-> permission_identifiers,
                           task |-> Len(ready'[session]), state |-> "waiting"])
    /\ UNCHANGED <<closed, outbox, received, tableListeners, store, cache, events, iter,
                   proxies, clientOut, session_permissions, permission_db,
                   permission_registry, disconnectReason, endpointVars, netVars, clientVars, forwardVars>>

\* Session.disconnect(reason, message): the reason is recorded and the connection closed
disconnect(session, reason) ==
    /\ closed' = [closed EXCEPT ![session] = TRUE]
    /\ disconnectReason' = [disconnectReason EXCEPT ![session] = reason]

\* handle_require resumes with accepted = True
DashboardAccept(i) ==
    /\ i \in DOMAIN dashboard
    /\ dashboard[i].state = "waiting"
    /\ LET r == dashboard[i] IN
        /\ session_permissions' = set_permissions(session_token(r.session), r.permissions)
        /\ permission_db' = store_permissions(session_permissions')
        /\ outbox' = IF closed[r.session] THEN outbox
                     ELSE [outbox EXCEPT ![r.session] =
                              Append(@, PermissionPacket("permission_grant", r.permissions))]
        /\ ready' = [ready EXCEPT ![r.session][r.task] = TRUE]
        /\ dashboard' = [dashboard EXCEPT ![i].state = "accepted"]
        /\ last' = PermLast("accepted", r.session, r.permissions, NoError)
    /\ UNCHANGED <<closed, received, tableListeners, store, cache, events, iter, proxies,
                   clientOut, permission_registry, request_id, disconnectReason, endpointVars, netVars, clientVars, forwardVars>>

\* handle_require resumes with accepted = False, and returns without a disconnect
DashboardDenyNoDisconnect(i) ==
    /\ i \in DOMAIN dashboard
    /\ dashboard[i].state = "waiting"
    /\ dashboard' = [dashboard EXCEPT ![i].state = "denied"]
    /\ last' = PermLast("denied", dashboard[i].session, dashboard[i].permissions, NoError)
    /\ UNCHANGED <<closed, outbox, received, tableListeners, store, cache, events, iter,
                   proxies, clientOut, session_permissions, permission_db,
                   permission_registry, request_id, ready, disconnectReason, endpointVars, netVars, clientVars, forwardVars>>

\* handle_require resumes with accepted = False
DashboardDeny(i) ==
    /\ i \in DOMAIN dashboard
    /\ dashboard[i].state = "waiting"
    /\ LET r == dashboard[i] IN
        /\ disconnect(r.session, "PERMISSION_DENIED")
        /\ dashboard' = [dashboard EXCEPT ![i].state = "denied"]
        /\ last' = PermLast("denied", r.session, r.permissions, NoError)
    /\ UNCHANGED <<outbox, received, tableListeners, store, cache, events, iter, proxies,
                   clientOut, session_permissions, permission_db, permission_registry,
                   request_id, ready, endpointVars, netVars, clientVars, forwardVars>>

\* the sessions that send permission_require, and those whose transport closes
Requirers == {"s1", "s2"}
PermClosers == {"s2"}

PermInit ==
    /\ ClientsIdle
    /\ ForwardIdle
    /\ TablesIdle
    /\ NetIdle
    /\ PermissionsIdle
    /\ EndpointsIdle
    /\ store = [t \in Tables |-> <<>>]
    /\ IterIdle

PermNext ==
    \/ \E s \in Sessions, permissions \in RegisterLists : HandleRegister(s, permissions)
    \/ \E s \in Requirers, ids \in PermissionLists : HandleRequire(s, ids)
    \/ \E i \in 1..MaxRequests : DashboardAccept(i)
    \/ \E i \in 1..MaxRequests : DashboardDeny(i)
    \/ \E s \in PermClosers : ConnectionClose(s)

SpecPerm == PermInit /\ [][PermNext]_vars

\* C5: a permission_require whose identifiers are, as a set, exactly the grant set
\* stored for the session's token is a silent no-op: it makes no request to the
\* dashboard, sends no packet, creates no ready task, and leaves the grants, the
\* database and the session's connection as they are.
C5_RequireGrantedIsNoOp ==
    [][(last'.op = "handle_require"
        /\ SeqSet(last'.ids) = SeqSet(IF DictHas(session_permissions,
                                                 session_token(last'.session))
                                      THEN DictGet(session_permissions,
                                                   session_token(last'.session))
                                      ELSE <<>>))
       => /\ dashboard' = dashboard
          /\ outbox' = outbox
          /\ ready' = ready
          /\ session_permissions' = session_permissions
          /\ permission_db' = permission_db
          /\ request_id' = request_id
          /\ closed' = closed
          /\ last'.exc = NoError]_vars

\* a session requires, in another order, the two permissions that the dashboard
\* granted to its token before
C5_Witness ==
    /\ last.op = "handle_require"
    /\ last.ids = <<PermWrite, PermRead>>
    /\ DictHas(session_permissions, session_token(last.session))
    /\ DictGet(session_permissions, session_token(last.session)) = <<PermRead, PermWrite>>
    /\ Len(dashboard) = 1
    /\ dashboard[1].state = "accepted"
    /\ Len(ready[last.session]) <= 1

C7_ApprovalGrants ==
    [][\A s \in Sessions :
        (last'.op = "accepted" /\ last'.session = s)
        => /\ DictHas(session_permissions', session_token(s))
           /\ DictGet(session_permissions', session_token(s)) = last'.ids
           /\ DictHas(permission_db', session_token(s))
           /\ DictGet(load_permissions(permission_db'), session_token(s)) = last'.ids
           /\ \A r \in Sessions :
                 outbox'[r] =
                     IF r = s /\ ~closed[s]
                     THEN Append(outbox[r], PermissionPacket("permission_grant", last'.ids))
                     ELSE outbox[r]
           /\ \A p \in PermissionIds :
                 p \in SeqSet(last'.ids) => has_permission(s, p)']_vars

\* the dashboard approves the request of a session that is not the dashboard's and
\* is still open
C7_Witness ==
    /\ last.op = "accepted"
    /\ last.session = "s1"
    /\ ~closed["s1"]
    /\ last.ids = <<PermRead, PermWrite>>
    /\ Len(outbox["s1"]) = 1
    /\ outbox["s1"][1].type = "permission_grant"
    /\ ready["s1"] = <<TRUE>>

(***************************************************************************)
(* The endpoint extension of the server.                                   *)
(***************************************************************************)
is_subpath_of(id, base) == id.namespace = base.namespace /\ IsPrefix(base.path, id.path)
is_namepath_equal(id, other, path_length) ==
    /\ id.namespace = other.namespace
    /\ SubSeq(id.path, 1, Min(path_length, Len(id.path)))
         = SubSeq(other.path, 1, Min(path_length, Len(other.path)))

\* a server-bound endpoint, the endpoints that sessions register, and an identifier
\* that is never bound
EpServer == Identifier("server", <<"echo">>)
EpA == Identifier("a", <<"app", "hello">>)
EpB == Identifier("b", <<"app", "hi">>)
EpUnknown == Identifier("a", <<"app", "nothing">>)
EndpointIds == {EpServer, EpA, EpB, EpUnknown}
EndpointKeys == {1}
EndpointData == {serialize(<<"k1", "x">>), BadBlob}
Callbacks == {"echo", "fail"}

\* an endpoint's permission when it declares none
NoPermission == Identifier("None", <<>>)
ServerEndpoint(id, permission) == [kind |-> "server", id |-> id, permission |-> permission]
SessionEndpoint(session, id, permission) ==
    [kind |-> "session", session |-> session, id |-> id, permission |-> permission]

\* the endpoints {id -> permission} that endpoint_register packets carry
EndpointRegisterPackets ==
    {<< <<EpA, NoPermission>> >>, << <<EpA, PermRead>> >>,
     << <<EpB, PermRead>>, <<EpA, NoPermission>> >>}

EndpointDataPacket(type, id, key, data) == [type |-> type, id |-> id, key |-> key, data |-> data]
EndpointErrorPacket(id, key, error) ==
    [type |-> "endpoint_error", id |-> id, key |-> key, error |-> error]
NotFound(id) == "Endpoint " \o Identifier_key(id) \o " not found"
EndpointNotFound(id) == "Endpoint not found " \o Identifier_key(id)

EpLast(op, session, packet, invoked, exc) ==
    [op |-> op, session |-> session, packet |-> packet, invoked |-> invoked, exc |-> exc]

\* the loop of handle_register: the endpoints it leaves and the exception it raises
RECURSIVE EndpointRegisterLoop(_, _, _)
EndpointRegisterLoop(eps, session, items) ==
    IF items = <<>> THEN [endpoints |-> eps, exc |-> NoError]
    ELSE IF ~is_subpath_of(items[1][1], session_app(session))
         THEN [endpoints |-> eps, exc |-> "PermissionDenied"]
         ELSE EndpointRegisterLoop(
                  DictSet(eps, items[1][1],
                          SessionEndpoint(session, items[1][1], items[1][2])),
                  session, Tail(items))

EndpointHandleRegister(session, packet) ==
    /\ ~closed[session]
    /\ dispatched < MaxDispatched
    /\ dispatched' = dispatched + 1
    /\ LET r == EndpointRegisterLoop(endpoints, session, packet) IN
        /\ endpoints' = r.endpoints
        /\ last' = EpLast("endpoint_register", session, None, "none", r.exc)
    /\ UNCHANGED <<closed, outbox, received, tableListeners, store, cache, events, iter,
                   proxies, clientOut, permVars, _calls, netVars, clientVars, forwardVars>>

\* verify_permission returns (TRUE) or raises PermissionDenied (FALSE)
verify_permission_skipped(endpoint, session) == TRUE
verify_permission(endpoint, session) ==
    \/ is_namepath_equal(endpoint.id, session_app(session), 1)
    \/ (endpoint.permission # NoPermission /\ has_permission(session, endpoint.permission))

\* Session.send: the packet is appended to what the session was sent
Send(box, session, packet) == [box EXCEPT ![session] = Append(@, packet)]

\* _get_endpoint: the endpoint, or None after an error packet to the caller
get_endpoint(packet, session, box) ==
    IF DictHas(endpoints, packet.id)
    THEN [found |-> TRUE, endpoint |-> DictGet(endpoints, packet.id), box |-> box]
    ELSE [found |-> FALSE, endpoint |-> None,
          box |-> Send(box, session,
                       EndpointErrorPacket(packet.id, packet.key, NotFound(packet.id)))]

\* ServerEndpoint.call with a handler that fails without a response to the caller
ServerEndpoint_call_drops_error(data, session, callback, box) ==
    IF closed[session] THEN [box |-> box, exc |-> "RuntimeError"]
    ELSE IF deserialize(data.data) = None THEN [box |-> box, exc |-> "DeserializeError"]
    ELSE IF callback = "fail" THEN [box |-> box, exc |-> "HandlerError"]
    ELSE [box |-> Send(box, session,
                       EndpointDataPacket("endpoint_receive", data.id, data.key,
                                          serialize(deserialize(data.data)))),
          exc |-> NoError]

\* ServerEndpoint.call: what the sessions were sent after it, and the exception it
\* raises; the callback "echo" returns its request, "fail" raises
ServerEndpoint_call(data, session, callback, box) ==
    IF closed[session] THEN [box |-> box, exc |-> "RuntimeError"]
    ELSE IF deserialize(data.data) = None
    THEN [box |-> Send(box, session,
                       EndpointErrorPacket(data.id, data.key, "DeserializeError")),
          exc |-> "DeserializeError"]
    ELSE IF callback = "fail"
    THEN [box |-> Send(box, session,
                       EndpointErrorPacket(data.id, data.key, "HandlerError")),
          exc |-> "HandlerError"]
    ELSE [box |-> Send(box, session,
                       EndpointDataPacket("endpoint_receive", data.id, data.key,
                                          serialize(deserialize(data.data)))),
          exc |-> NoError]

\* SessionEndpoint.call: the call is forwarded to the session that registered it
SessionEndpoint_call(endpoint, data, box) ==
    IF closed[endpoint.session] THEN [box |-> box, exc |-> "RuntimeError"]
    ELSE [box |-> Send(box, endpoint.session,
                       EndpointDataPacket("endpoint_call", data.id, data.key, data.data)),
          exc |-> NoError]

Endpoint_call(endpoint, data, session, callback, box) ==
    IF endpoint.kind = "server" THEN ServerEndpoint_call(data, session, callback, box)
    ELSE SessionEndpoint_call(endpoint, data, box)

\* handle_call; callback is what the handler of a server-bound endpoint does with
\* this request
EndpointHandleCall(session, packet, callback) ==
    /\ dispatched < MaxDispatched
    /\ dispatched' = dispatched + 1
    /\ LET got == get_endpoint(packet, session, outbox) IN
       IF ~got.found
       THEN /\ outbox' = Send(got.box, session,
                              EndpointErrorPacket(packet.id, packet.key,
                                                  NotFound(packet.id)))
            /\ last' = EpLast("endpoint_call", session, packet, "none", NoError)
            /\ UNCHANGED _calls
       ELSE IF ~verify_permission(got.endpoint, session)
       THEN /\ last' = EpLast("endpoint_call", session, packet, "none", "PermissionDenied")
            /\ UNCHANGED <<outbox, _calls>>
       ELSE LET r == Endpoint_call(got.endpoint, packet, session, callback, got.box) IN
            /\ outbox' = r.box
            /\ last' = EpLast("endpoint_call", session,
                              IF got.endpoint.kind = "server"
                              THEN [packet EXCEPT !.callback = callback] ELSE packet,
                              got.endpoint.kind, r.exc)
            /\ _calls' = IF r.exc = NoError
                        THEN DictSet(_calls, <<packet.id, packet.key>>, session)
                        ELSE _calls
    /\ UNCHANGED <<closed, received, tableListeners, store, cache, events, iter, proxies,
                   clientOut, permVars, endpoints, netVars, clientVars, forwardVars>>

EndpointHandleReceive(session, packet) ==
    /\ ~closed[session]
    /\ dispatched < MaxDispatched
    /\ dispatched' = dispatched + 1
    /\ outbox' = IF ~DictHas(_calls, <<packet.id, packet.key>>)
                 THEN Send(outbox, session,
                           EndpointErrorPacket(packet.id, packet.key,
                                               EndpointNotFound(packet.id)))
                 ELSE Send(outbox, DictGet(_calls, <<packet.id, packet.key>>),
                           EndpointDataPacket("endpoint_receive", packet.id, packet.key,
                                              packet.data))
    /\ last' = EpLast("endpoint_receive", session, packet, "none", NoError)
    /\ UNCHANGED <<closed, received, tableListeners, store, cache, events, iter, proxies,
                   clientOut, permVars, endpoints, _calls, netVars, clientVars, forwardVars>>

EndpointHandleError(session, packet) ==
    /\ ~closed[session]
    /\ dispatched < MaxDispatched
    /\ dispatched' = dispatched + 1
    /\ outbox' = IF ~DictHas(_calls, <<packet.id, packet.key>>)
                 THEN Send(outbox, session,
                           EndpointErrorPacket(packet.id, packet.key, NotFound(packet.id)))
                 ELSE Send(outbox, DictGet(_calls, <<packet.id, packet.key>>),
                           EndpointErrorPacket(packet.id, packet.key, packet.data))
    /\ last' = EpLast("endpoint_error", session, packet, "none", NoError)
    /\ UNCHANGED <<closed, received, tableListeners, store, cache, events, iter, proxies,
                   clientOut, permVars, endpoints, _calls, netVars, clientVars, forwardVars>>

\* the packets that sessions send to the endpoint extension
CallPackets ==
    {[id |-> id, key |-> key, data |-> serialize(<<"k1", "x">>), callback |-> "none"] :
        id \in EndpointIds, key \in EndpointKeys}
    \cup {[id |-> EpServer, key |-> key, data |-> BadBlob, callback |-> "none"] :
             key \in EndpointKeys}
ReplyPackets ==
    {[id |-> id, key |-> key, data |-> serialize(<<"k1", "y">>), callback |-> "none"] :
        id \in {EpServer, EpA}, key \in EndpointKeys}
\* what the handler of a server-bound endpoint may do with a request
CallbacksFor(packet) ==
    IF packet.id = EpServer /\ deserialize(packet.data) # None THEN Callbacks ELSE {"echo"}
\* the sessions that register endpoints
Registerers == {"s2", "s3"}

\* the grant lists that the server loads when it starts
LoadedGrants == {<<>>, << <<"tk1", <<PermRead>>>> >>}

\* a server that has loaded its grants and bound its own endpoint
EndpointInit ==
    /\ ClientsIdle
    /\ ForwardIdle
    /\ TablesIdle
    /\ NetIdle
    /\ store = [t \in Tables |-> <<>>]
    /\ IterIdle
    /\ request_id = 0
    /\ dashboard = <<>>
    /\ ready = [s \in Sessions |-> <<>>]
    /\ disconnectReason = [s \in Sessions |-> NoError]
    /\ permission_registry = {PermRead}
    /\ session_permissions \in LoadedGrants
    /\ permission_db = PermissionRows(session_permissions)
    /\ endpoints = << <<EpServer, ServerEndpoint(EpServer, PermRead)>> >>
    /\ _calls = <<>>
    /\ dispatched = 0

EndpointNext ==
    \/ \E s \in Registerers, packet \in EndpointRegisterPackets :
          EndpointHandleRegister(s, packet)
    \/ \E s \in Sessions, packet \in CallPackets :
          \E callback \in CallbacksFor(packet) : EndpointHandleCall(s, packet, callback)
    \/ \E s \in Sessions, packet \in ReplyPackets : EndpointHandleReceive(s, packet)
    \/ \E s \in Sessions, packet \in ReplyPackets : EndpointHandleError(s, packet)
    \/ \E s \in Closers : ConnectionClose(s)

SpecEndpoint == EndpointInit /\ [][EndpointNext]_vars

\* C8: an endpoint_call whose identifier has no endpoint makes the server send the
\* caller exactly one endpoint_error packet, with the call's id and key and the
\* message "Endpoint <id> not found"; no handler is invoked and no pending call is
\* recorded.
C8_UnknownEndpointOneError ==
    [][(last'.op = "endpoint_call" /\ ~DictHas(endpoints, last'.packet.id))
       => /\ outbox' = [outbox EXCEPT ![last'.session] =
                           Append(@, EndpointErrorPacket(last'.packet.id, last'.packet.key,
                                                         NotFound(last'.packet.id)))]
          /\ last'.invoked = "none"
          /\ _calls' = _calls]_vars

C10_EndpointGating ==
    [][\A s \in Sessions :
        (/\ last'.op = "endpoint_call"
         /\ last'.session = s
         /\ DictHas(endpoints, last'.packet.id)
         /\ ~(/\ last'.packet.id.namespace = session_app(s).namespace
              /\ last'.packet.id.path[1] = session_app(s).path[1])
         /\ ~has_permission(s, DictGet(endpoints, last'.packet.id).permission))
        => /\ last'.invoked = "none"
           /\ outbox' = outbox
           /\ _calls' = _calls]_vars

\* s1, whose token has no grant, calls the endpoint that the app of s3 registered
\* with a permission: the call is denied
C10_Witness ==
    /\ last.op = "endpoint_call"
    /\ last.session = "s1"
    /\ last.packet.id = EpB
    /\ DictHas(endpoints, EpB)
    /\ DictGet(endpoints, EpB).permission = PermRead
    /\ ~has_permission("s1", PermRead)
    /\ last.exc = "PermissionDenied"
    /\ last.invoked = "none"
    /\ outbox["s3"] = <<>>
    /\ _calls = <<>>

\* C11: a dashboard session bypasses every permission check: has_permission is true
\* of it and every permission identifier, and verify_permission denies no endpoint
\* call that it makes, whatever the endpoint's namespace and permission.
C11_DashboardBypass ==
    [][/\ \A s \in Sessions : \A p \in PermissionIds \cup {NoPermission} :
             is_dashboard(s) => has_permission(s, p)'
       /\ (last'.op = "endpoint_call" /\ is_dashboard(last'.session)
           /\ DictHas(endpoints, last'.packet.id))
          => last'.exc # "PermissionDenied"]_vars


(***************************************************************************)
(* The server's sessions: the handshake, the receive loop and the packet   *)
(* dispatcher.                                                             *)
(***************************************************************************)
MaxFrames == 2
Connections == {"s1", "s2"}

\* a frame as SessionConnection.receive returns it; NoFrame is the None that it
\* returns when the socket has closed
Frame(type, token) == [type |-> type, token |-> token]
NoFrame == Frame("None", "none")
ConnectFrames == {Frame("connect", "none"), Frame("connect", "tk1"), Frame("connect", "bad")}
PacketFrames == {Frame("ping", "none"), Frame("boom", "none"), Frame("future", "none")}
FirstFrames == ConnectFrames \cup {Frame("ping", "none"), NoFrame}
TokenPacket(token) == [type |-> "token", token |-> token]
PongPacket == [type |-> "pong", token |-> "none"]

\* security.authenticate_app: the token of the app, a new one when the Connect
\* packet has none, or an exception when the token is not the app's
authenticate_app(connection, token) ==
    IF token \in {"none", session_token(connection)}
    THEN [exc |-> NoError, token |-> session_token(connection)]
    ELSE [exc |-> "AuthError", token |-> "none"]

HandshakeResult(exc, auth, session, sent) ==
    [exc |-> exc, auth |-> auth, session |-> session, sent |-> sent]

\* Session.from_connection with the check of the first frame's type left out
from_connection_any_frame(connection, data) ==
    IF data = NoFrame THEN HandshakeResult("RuntimeError", <<>>, FALSE, <<>>)
    ELSE LET a == authenticate_app(connection, data.token) IN
         IF a.exc # NoError THEN HandshakeResult(a.exc, <<data.token>>, FALSE, <<>>)
         ELSE HandshakeResult(NoError, <<data.token>>, TRUE, <<TokenPacket(a.token)>>)

\* Session.from_connection with a Session that is returned before the Token is sent
from_connection_without_token(connection, data) ==
    IF data = NoFrame THEN HandshakeResult("RuntimeError", <<>>, FALSE, <<>>)
    ELSE IF data.type # "connect" THEN HandshakeResult("RuntimeError", <<>>, FALSE, <<>>)
    ELSE LET a == authenticate_app(connection, data.token) IN
         IF a.exc # NoError THEN HandshakeResult(a.exc, <<data.token>>, FALSE, <<>>)
         ELSE HandshakeResult(NoError, <<data.token>>, TRUE, <<>>)

\* Session.from_connection: the exception it raises, the calls of authenticate_app
\* it makes, whether it creates a Session, and the packets it sends
from_connection(connection, data) ==
    IF data = NoFrame THEN HandshakeResult("RuntimeError", <<>>, FALSE, <<>>)
    ELSE IF data.type # "connect" THEN HandshakeResult("RuntimeError", <<>>, FALSE, <<>>)
    ELSE LET a == authenticate_app(connection, data.token) IN
         IF a.exc # NoError THEN HandshakeResult(a.exc, <<data.token>>, FALSE, <<>>)
         ELSE HandshakeResult(NoError, <<data.token>>, TRUE, <<TokenPacket(a.token)>>)

SessionLast(op, session, packet, invoked, warned, exc) ==
    [op |-> op, session |-> session, packet |-> packet, invoked |-> invoked,
     warned |-> warned, exc |-> exc]

\* the server accepts a connection and awaits Session.from_connection, which reads
\* the first frame; a socket that is closed already gives no frame
SessionFromConnection(c, data) ==
    /\ phase[c] = "idle"
    /\ closed[c] => data = NoFrame
    /\ LET r == from_connection(c, data) IN
        /\ phase' = [phase EXCEPT ![c] = IF r.exc = NoError THEN "open" ELSE "rejected"]
        /\ authCalls' = [authCalls EXCEPT ![c] = @ \o r.auth]
        /\ sessionObjs' = IF r.session THEN sessionObjs \cup {c} ELSE sessionObjs
        /\ outbox' = [outbox EXCEPT ![c] = @ \o r.sent]
        /\ last' = SessionLast("from_connection", c, data, <<>>, FALSE, r.exc)
    /\ closed' = IF data = NoFrame THEN [closed EXCEPT ![c] = TRUE] ELSE closed
    /\ UNCHANGED <<received, tableListeners, store, cache, events, iter, proxies, clientOut,
                   permVars, endpointVars, emitted, invocations, _packet_listeners,
                   packet_mapper, disconnected, connVars, clientVars, forwardVars>>


\* the handlers of the model: "pong" answers the session, "fail" raises
Handlers == {"pong", "fail"}
DispatchResult(invoked, warned, exc) == [invoked |-> invoked, warned |-> warned, exc |-> exc]

\* EventEmitter.emit: the listeners are awaited in order, and the exception of one
\* ends the emit; the result lists the listeners that were called
RECURSIVE emit(_)
emit(listeners) ==
    IF listeners = <<>> THEN DispatchResult(<<>>, FALSE, NoError)
    ELSE IF listeners[1] = "fail" THEN DispatchResult(<<"fail">>, FALSE, "HandlerError")
    ELSE LET r == emit(Tail(listeners)) IN
         DispatchResult(<<listeners[1]>> \o r.invoked, FALSE, r.exc)

\* process_packet with a lookup that raises for an identifier without listeners
process_packet_raises_unknown(session, packet) ==
    IF packet = NoFrame THEN DispatchResult(<<>>, FALSE, "AttributeError")
    ELSE IF ~DictHas(_packet_listeners, packet.type)
    THEN DispatchResult(<<>>, FALSE, "KeyError")
    ELSE emit(DictGet(_packet_listeners, packet.type))

\* ServerPacketDispatcher.process_packet; the None of a closed socket has no type
process_packet(session, packet) ==
    IF packet = NoFrame THEN DispatchResult(<<>>, FALSE, "AttributeError")
    ELSE IF ~DictHas(_packet_listeners, packet.type)
    THEN DispatchResult(<<>>, TRUE, NoError)
    ELSE emit(DictGet(_packet_listeners, packet.type))

\* what the handlers that were called of one packet add to the invocations
Invoked(session, packet, invoked) ==
    [i \in DOMAIN invoked |->
        [session |-> session, type |-> packet.type, handler |-> invoked[i]]]
\* the packets that the called handlers send to the session
Answers(invoked) ==
    [i \in DOMAIN SelectSeq(invoked, LAMBDA h : h = "pong") |-> PongPacket]

\* one turn of Session.listen in which the exception of a handler ends the loops
\* of all sessions
SessionListen_stops_server(c, packet) ==
    /\ phase[c] = "open"
    /\ IF closed[c]
       THEN /\ phase' = [phase EXCEPT ![c] = "ended"]
            /\ last' = SessionLast("listen", c, NoFrame, <<>>, FALSE, NoError)
            /\ UNCHANGED <<closed, outbox, emitted, invocations>>
       ELSE /\ Len(emitted[c]) < MaxFrames
            /\ closed' = IF packet = NoFrame THEN [closed EXCEPT ![c] = TRUE] ELSE closed
            /\ emitted' = [emitted EXCEPT ![c] = Append(@, packet)]
            /\ LET r == process_packet(c, packet) IN
                /\ invocations' = invocations \o Invoked(c, packet, r.invoked)
                /\ outbox' = [outbox EXCEPT ![c] = @ \o Answers(r.invoked)]
                /\ phase' = IF r.exc = NoError THEN phase
                            ELSE [s \in Sessions |->
                                    IF phase[s] = "open" THEN "raised" ELSE phase[s]]
                /\ last' = SessionLast("listen", c, packet, r.invoked, r.warned, r.exc)
    /\ UNCHANGED <<received, tableListeners, store, cache, events, iter, proxies, clientOut,
                   permVars, endpointVars, authCalls, sessionObjs, _packet_listeners,
                   packet_mapper, disconnected, connVars, clientVars, forwardVars>>

\* one turn of the loop of Session.listen, run by the session's own task: the loop
\* ends when the connection is closed; otherwise the packet received (None when the
\* socket closes meanwhile) is emitted to listeners.packet, where process_packet is
\* subscribed, and an exception ends the loop
SessionListen(c, packet) ==
    /\ phase[c] = "open"
    /\ IF closed[c]
       THEN /\ phase' = [phase EXCEPT ![c] = "ended"]
            /\ last' = SessionLast("listen", c, NoFrame, <<>>, FALSE, NoError)
            /\ UNCHANGED <<closed, outbox, emitted, invocations>>
       ELSE /\ Len(emitted[c]) < MaxFrames
            /\ closed' = IF packet = NoFrame THEN [closed EXCEPT ![c] = TRUE] ELSE closed
            /\ emitted' = [emitted EXCEPT ![c] = Append(@, packet)]
            /\ LET r == process_packet(c, packet) IN
                /\ invocations' = invocations \o Invoked(c, packet, r.invoked)
                /\ outbox' = [outbox EXCEPT ![c] = @ \o Answers(r.invoked)]
                /\ phase' = IF r.exc = NoError THEN phase
                            ELSE [phase EXCEPT ![c] = "raised"]
                /\ last' = SessionLast("listen", c, packet, r.invoked, r.warned, r.exc)
    /\ UNCHANGED <<received, tableListeners, store, cache, events, iter, proxies, clientOut,
                   permVars, endpointVars, authCalls, sessionObjs, _packet_listeners,
                   packet_mapper, disconnected, connVars, clientVars, forwardVars>>

\* the packet types and handlers that the server's extensions registered at startup
StartupListeners ==
    << <<"ping", <<"pong">>>>, <<"boom", <<"pong", "fail">>>> >>

\* a server that has started and accepts connections
SessionInit ==
    /\ ClientsIdle
    /\ ForwardIdle
    /\ TablesIdle
    /\ PermissionsIdle
    /\ EndpointsIdle
    /\ IterIdle
    /\ store = [t \in Tables |-> <<>>]
    /\ ConnectionIdle
    /\ phase = [s \in Sessions |-> "idle"]
    /\ authCalls = [s \in Sessions |-> <<>>]
    /\ sessionObjs = {}
    /\ emitted = [s \in Sessions |-> <<>>]
    /\ invocations = <<>>
    /\ _packet_listeners = StartupListeners
    /\ packet_mapper = {"ping", "boom"}
    /\ disconnected = [s \in Sessions |-> <<>>]

SessionNext ==
    \/ \E c \in Connections, data \in FirstFrames : SessionFromConnection(c, data)
    \/ \E c \in Connections, packet \in PacketFrames \cup {NoFrame} : SessionListen(c, packet)
    \/ \E c \in Connections : ConnectionClose(c)

SpecSession == SessionInit /\ [][SessionNext]_vars

\* the tasks of the server's event loop are scheduled fairly
SpecSessionFair ==
    /\ SpecSession
    /\ \A c \in Connections :
          /\ WF_vars(\E data \in FirstFrames : SessionFromConnection(c, data))
          /\ WF_vars(\E packet \in PacketFrames \cup {NoFrame} : SessionListen(c, packet))


\* C12: when the first frame received on a connection is not a Connect packet,
\* from_connection raises, no Session is created, authenticate_app is not called
\* and nothing, so no Token packet, is sent on that connection.
C12_HandshakeRejection ==
    [][(last'.op = "from_connection" /\ last'.packet.type # "connect")
       => /\ last'.exc # NoError
          /\ phase'[last'.session] = "rejected"
          /\ sessionObjs' = sessionObjs
          /\ authCalls' = authCalls
          /\ outbox' = outbox]_vars

\* the first frame of s1 was a ping packet and the connection was rejected
C12_Witness ==
    /\ last.op = "from_connection"
    /\ last.session = "s1"
    /\ last.packet = Frame("ping", "none")
    /\ last.exc = "RuntimeError"
    /\ phase["s1"] = "rejected"
    /\ "s1" \notin sessionObjs
    /\ authCalls["s1"] = <<>>
    /\ outbox["s1"] = <<>>

\* C13: on every connection the Token packet is the first packet the server sends,
\* it is sent only after a Connect frame was received and authenticate_app was
\* called for it, and no packet of the connection is emitted to the dispatcher
\* before the Token packet was sent.
C13_HandshakeOrdering ==
    \A c \in Connections :
        /\ outbox[c] # <<>> => outbox[c][1].type = "token"
        /\ (\E i \in DOMAIN outbox[c] : outbox[c][i].type = "token")
              => /\ Len(authCalls[c]) = 1
                 /\ c \in sessionObjs
                 /\ outbox[c][1] = TokenPacket(authenticate_app(c, authCalls[c][1]).token)
        /\ \A i \in DOMAIN outbox[c] : i > 1 => outbox[c][i].type # "token"
        /\ emitted[c] # <<>> => (outbox[c] # <<>> /\ outbox[c][1].type = "token")

\* s1 was sent its Token and then the answer to a packet of its own
C13_Witness ==
    /\ Len(outbox["s1"]) = 2
    /\ outbox["s1"][1].type = "token"
    /\ outbox["s1"][2] = PongPacket
    /\ emitted["s1"] = <<Frame("ping", "none")>>
    /\ authCalls["s1"] = <<"tk1">>


\* C14: when the transport of a session reports closed, the session's receive loop
\* stops and a disconnect event is eventually emitted to the session's
\* disconnected listeners.
C14_DisconnectEvent ==
    \A c \in Connections :
        (phase[c] = "open" /\ closed[c]) ~> (phase[c] # "open" /\ disconnected[c] # <<>>)


\* C17: process_packet for a packet whose type has no registered listeners drops
\* the packet: no handler is invoked, no error is raised, the dispatcher's state is
\* unchanged, and the session's receive loop goes on with the next packet.
C17_UnknownPacketDropped ==
    [][\A c \in Connections :
        (/\ last'.op = "listen"
         /\ last'.session = c
         /\ emitted'[c] # emitted[c]
         /\ last'.packet # NoFrame
         /\ ~DictHas(_packet_listeners, last'.packet.type))
        => /\ last'.invoked = <<>>
           /\ last'.exc = NoError
           /\ invocations' = invocations
           /\ _packet_listeners' = _packet_listeners
           /\ packet_mapper' = packet_mapper
           /\ outbox' = outbox
           /\ phase'[c] = "open"]_vars

\* s1 sent a packet of an unknown type and then a ping, which was handled
C17_Witness ==
    /\ emitted["s1"] = <<Frame("future", "none"), Frame("ping", "none")>>
    /\ invocations = <<[session |-> "s1", type |-> "ping", handler |-> "pong"]>>
    /\ phase["s1"] = "open"
    /\ last.op = "listen"
    /\ last.exc = NoError

\* C19: when a handler raises for a packet of session A, only the receive loop of
\* A is ended by it: every other session B is left as it was, and a receive loop
\* ends with an exception only for a packet of its own session, so the later
\* packets of B are still received and dispatched to their handlers.
C19_FailureIsolation ==
    [][/\ \A a \in Connections :
            (last'.op = "listen" /\ last'.session = a /\ last'.exc = "HandlerError")
            => \A b \in Connections \ {a} :
                  /\ phase'[b] = phase[b]
                  /\ closed'[b] = closed[b]
                  /\ emitted'[b] = emitted[b]
                  /\ outbox'[b] = outbox[b]
       /\ \A b \in Connections :
            phase'[b] = "raised"
            => /\ emitted'[b] # <<>>
               /\ emitted'[b][Len(emitted'[b])] \in {Frame("boom", "none"), NoFrame}]_vars

\* a handler raised for a packet of s1, and after that a packet of s2 was received
\* and its handler called
C19_Witness ==
    /\ phase["s1"] = "raised"
    /\ phase["s2"] = "open"
    /\ invocations = <<[session |-> "s1", type |-> "boom", handler |-> "pong"],
                       [session |-> "s1", type |-> "boom", handler |-> "fail"],
                       [session |-> "s2", type |-> "ping", handler |-> "pong"]>>
    /\ outbox["s2"] = <<TokenPacket("tk1"), PongPacket>>


(***************************************************************************)
(* Registration of packet types and handlers in the dispatcher.            *)
(***************************************************************************)
MaxHandlers == 2
PacketTypeNames == {"ping", "boom", "future"}
RegisterCalls == {<<"ping">>, <<"boom">>, <<"ping", "boom">>, <<"future", "ping">>}

\* PacketMapper.register: the types it has registered when it returns or raises
RECURSIVE PacketMapper_register(_, _)
PacketMapper_register(mapper, types) ==
    IF types = <<>> THEN [mapper |-> mapper, exc |-> NoError]
    ELSE IF types[1] \in mapper THEN [mapper |-> mapper, exc |-> "ValueError"]
    ELSE PacketMapper_register(mapper \cup {types[1]}, Tail(types))

\* the loop of ServerPacketDispatcher.register; a PacketListeners entry starts
\* without handlers
RECURSIVE RegisterListeners(_, _)
RegisterListeners(listeners, types) ==
    IF types = <<>> THEN [listeners |-> listeners, exc |-> NoError]
    ELSE IF DictHas(listeners, types[1]) THEN [listeners |-> listeners, exc |-> "ValueError"]
    ELSE RegisterListeners(DictSet(listeners, types[1], <<>>), Tail(types))

RegisterResult(mapper, listeners, exc) ==
    [mapper |-> mapper, listeners |-> listeners, exc |-> exc]

\* register that replaces the entries of the identifiers that are registered already
register_overwrites(types) ==
    RegisterResult(packet_mapper \cup {types[i] : i \in DOMAIN types},
                   DictUpdate(_packet_listeners, [i \in DOMAIN types |-> <<types[i], <<>>>>]),
                   NoError)

\* ServerPacketDispatcher.register(*types)
register(types) ==
    LET m == PacketMapper_register(packet_mapper, types) IN
    IF m.exc # NoError THEN RegisterResult(m.mapper, _packet_listeners, m.exc)
    ELSE LET l == RegisterListeners(_packet_listeners, types) IN
         RegisterResult(m.mapper, l.listeners, l.exc)

DispatcherLast(op, types, handler, exc) ==
    [op |-> op, types |-> types, handler |-> handler, exc |-> exc]

DispatcherRegister(types) ==
    /\ LET r == register(types) IN
        /\ packet_mapper' = r.mapper
        /\ _packet_listeners' = r.listeners
        /\ last' = DispatcherLast("register", types, "none", r.exc)
    /\ UNCHANGED <<closed, outbox, received, tableListeners, store, cache, events, iter,
                   proxies, clientOut, permVars, endpointVars, phase, authCalls, sessionObjs,
                   emitted, invocations, disconnected, connVars, clientVars, forwardVars>>

\* ServerPacketDispatcher.add_packet_handler(packet_type, handler)
DispatcherAddPacketHandler(type, handler) ==
    /\ IF ~DictHas(_packet_listeners, type)
       THEN /\ last' = DispatcherLast("add_packet_handler", <<type>>, handler, "ValueError")
            /\ UNCHANGED _packet_listeners
       ELSE /\ Len(DictGet(_packet_listeners, type)) < MaxHandlers
            /\ _packet_listeners' = DictSet(_packet_listeners, type,
                                            Append(DictGet(_packet_listeners, type), handler))
            /\ last' = DispatcherLast("add_packet_handler", <<type>>, handler, NoError)
    /\ UNCHANGED <<closed, outbox, received, tableListeners, store, cache, events, iter,
                   proxies, clientOut, permVars, endpointVars, phase, authCalls, sessionObjs,
                   emitted, invocations, packet_mapper, disconnected, connVars, clientVars, forwardVars>>

\* a dispatcher right after construction
DispatcherInit ==
    /\ ClientsIdle
    /\ ForwardIdle
    /\ TablesIdle
    /\ NetIdle
    /\ PermissionsIdle
    /\ EndpointsIdle
    /\ IterIdle
    /\ store = [t \in Tables |-> <<>>]

DispatcherNext ==
    \/ \E types \in RegisterCalls : DispatcherRegister(types)
    \/ \E type \in PacketTypeNames, handler \in Handlers :
          DispatcherAddPacketHandler(type, handler)

SpecDispatcher == DispatcherInit /\ [][DispatcherNext]_vars

\* C18: registering a packet type whose identifier is already registered in the
\* dispatcher raises an error, and the listener entry that was registered first
\* for that identifier is kept unchanged, with its handlers.
C18_DuplicateRegisterRaises ==
    [][(/\ last'.op = "register"
        /\ \E i \in DOMAIN last'.types : DictHas(_packet_listeners, last'.types[i]))
       => /\ last'.exc = "ValueError"
          /\ \A k \in DictKeys(_packet_listeners) :
                /\ DictHas(_packet_listeners', k)
                /\ DictGet(_packet_listeners', k) = DictGet(_packet_listeners, k)]_vars

\* ping was registered with a handler, and registering it again raised
C18_Witness ==
    /\ last.op = "register"
    /\ last.types = <<"ping">>
    /\ last.exc = "ValueError"
    /\ _packet_listeners = << <<"ping", <<"pong">>>> >>


(***************************************************************************)
(* The client's WebsocketsConnection, used by several tasks of the client. *)
(***************************************************************************)
MaxWrites == 2
Tasks == {"t1", "t2"}
Messages == {"binary", "text", "close"}

\* WebsocketsConnection.closed
Connection_closed == _socket # "open"

ConnLast(op, task, exc) == [op |-> op, task |-> task, was |-> _socket, exc |-> exc]

\* WebsocketsConnection.connect; ws_connect succeeds or raises
WsConnect(ok) ==
    /\ IF _socket = "open"
       THEN /\ last' = ConnLast("connect", "none", "RuntimeError")
            /\ UNCHANGED <<_socket, _connected>>
       ELSE IF ok
       THEN /\ _socket' = "open"
            /\ _connected' = TRUE
            /\ last' = ConnLast("connect", "none", NoError)
       ELSE /\ last' = ConnLast("connect", "none", "ClientError")
            /\ UNCHANGED <<_socket, _connected>>
    /\ UNCHANGED <<closed, outbox, received, tableListeners, store, cache, events, iter,
                   proxies, clientOut, permVars, endpointVars, sessionVars, sending, wire, clientVars, forwardVars>>

\* the server or the network closes the socket
WsRemoteClose ==
    /\ _socket = "open"
    /\ _socket' = "closed"
    /\ last' = Idle
    /\ UNCHANGED <<closed, outbox, received, tableListeners, store, cache, events, iter,
                   proxies, clientOut, permVars, endpointVars, sessionVars, _connected,
                   sending, wire, clientVars, forwardVars>>

\* WebsocketsConnection.close that raises when there is no open socket, as send does
WsClose_raises_when_closed ==
    /\ IF _socket # "open"
       THEN /\ last' = ConnLast("close", "none", "RuntimeError")
            /\ UNCHANGED <<_socket, _connected>>
       ELSE /\ _socket' = "None"
            /\ _connected' = FALSE
            /\ last' = ConnLast("close", "none", NoError)
    /\ UNCHANGED <<closed, outbox, received, tableListeners, store, cache, events, iter,
                   proxies, clientOut, permVars, endpointVars, sessionVars, sending, wire, clientVars, forwardVars>>

\* WebsocketsConnection.close
WsClose ==
    /\ IF _socket = "None" \/ _socket = "closed"
       THEN UNCHANGED <<_socket, _connected>>
       ELSE /\ _socket' = "None"
            /\ _connected' = FALSE
    /\ last' = ConnLast("close", "none", NoError)
    /\ UNCHANGED <<closed, outbox, received, tableListeners, store, cache, events, iter,
                   proxies, clientOut, permVars, endpointVars, sessionVars, sending, wire, clientVars, forwardVars>>

\* WebsocketsConnection.receive: every message but a binary one raises, and a close
\* message leaves the socket closed
WsReceive(msg) ==
    /\ IF _socket # "open"
       THEN /\ last' = ConnLast("receive", "none", "RuntimeError")
            /\ UNCHANGED _socket
       ELSE /\ _socket' = IF msg = "close" THEN "closed" ELSE _socket
            /\ last' = ConnLast("receive", "none",
                                IF msg = "binary" THEN NoError ELSE "RuntimeError")
    /\ UNCHANGED <<closed, outbox, received, tableListeners, store, cache, events, iter,
                   proxies, clientOut, permVars, endpointVars, sessionVars, _connected,
                   sending, wire, clientVars, forwardVars>>

\* WebsocketsConnection.send, called by a task, up to its await of send_bytes: the
\* frame starts being written to the transport
WsSendBegin(t) ==
    /\ t \notin sending
    /\ IF _socket # "open" \/ ~_connected
       THEN /\ last' = ConnLast("send", t, "RuntimeError")
            /\ UNCHANGED <<sending, wire>>
       ELSE /\ Len(SelectSeq(wire, LAMBDA w : w.mark = "begin")) < MaxWrites
            /\ sending' = sending \cup {t}
            /\ wire' = Append(wire, [task |-> t, mark |-> "begin"])
            /\ last' = ConnLast("send", t, NoError)
    /\ UNCHANGED <<closed, outbox, received, tableListeners, store, cache, events, iter,
                   proxies, clientOut, permVars, endpointVars, sessionVars, _socket,
                   _connected, clientVars, forwardVars>>

\* send_bytes completes and the task's send returns
WsSendEnd(t) ==
    /\ t \in sending
    /\ sending' = sending \ {t}
    /\ wire' = Append(wire, [task |-> t, mark |-> "end"])
    /\ last' = ConnLast("send_done", t, NoError)
    /\ UNCHANGED <<closed, outbox, received, tableListeners, store, cache, events, iter,
                   proxies, clientOut, permVars, endpointVars, sessionVars, _socket,
                   _connected, clientVars, forwardVars>>

ConnectionInit ==
    /\ ClientsIdle
    /\ ForwardIdle
    /\ TablesIdle
    /\ NetIdle
    /\ PermissionsIdle
    /\ EndpointsIdle
    /\ IterIdle
    /\ store = [t \in Tables |-> <<>>]

ConnectionNext ==
    \/ \E ok \in BOOLEAN : WsConnect(ok)
    \/ WsRemoteClose
    \/ WsClose
    \/ \E msg \in Messages : WsReceive(msg)
    \/ \E t \in Tasks : WsSendBegin(t)
    \/ \E t \in Tasks : WsSendEnd(t)

SpecConnection == ConnectionInit /\ [][ConnectionNext]_vars

\* C15: closing a connection that is already closed, or was never opened, raises
\* no error and leaves its state unchanged, and after every close call the
\* connection reports closed.
C15_CloseIdempotent ==
    [][last'.op = "close"
       => /\ last'.exc = NoError
          /\ Connection_closed'
          /\ Connection_closed => connVars' = connVars]_vars

\* the connection was opened and closed, and was then closed again
C15_Witness ==
    /\ last.op = "close"
    /\ last.was = "None"
    /\ last.exc = NoError
    /\ _socket = "None"
    /\ ~_connected
    /\ wire # <<>>
    /\ sending = {}

\* C16: no reachable state has two sends in flight on the same connection: a
\* second frame starts being written only after the first send has completed.
C16_SingleWriter == Cardinality(sending) <= 1


(***************************************************************************)
(* The client's removal handler as a function of the cache and the event.  *)
(***************************************************************************)
RemoveKeys == {"k1", "k2", "k3"}
CacheEntries == {<< <<k, <<k, b>>>> >> : k \in RemoveKeys, b \in Bodies}
\* the caches of up to two items
RemoveCaches ==
    {<<>>} \cup CacheEntries
           \cup {p[1] \o p[2] : p \in {q \in CacheEntries \X CacheEntries :
                                                q[1][1][1] # q[2][1][1]}}
\* the item_remove packets of the client's table and of another table
RemoveEvents ==
    {TablePacket("item_remove", t, items) : t \in {"t1", "t2"}, items \in ItemMaps}

\* client s1 has some cache and is sent the same item_remove packet twice
RemoveInit ==
    /\ ClientsIdle
    /\ ForwardIdle
    /\ NetIdle
    /\ PermissionsIdle
    /\ EndpointsIdle
    /\ IterIdle
    /\ store = [t \in Tables |-> <<>>]
    /\ closed = [s \in Sessions |-> FALSE]
    /\ received = [s \in Sessions |-> 0]
    /\ tableListeners = [t \in Tables |-> {}]
    /\ events = 0
    /\ last = Idle
    /\ proxies = [s \in Sessions |-> <<>>]
    /\ clientOut = [s \in Sessions |-> <<>>]
    /\ \E d \in RemoveCaches : cache = [s \in Sessions |-> IF s = "s1" THEN d ELSE <<>>]
    /\ \E event \in RemoveEvents :
          outbox = [s \in Sessions |-> IF s = "s1" THEN <<event, event>> ELSE <<>>]

RemoveNext == \E c \in Sessions : ClientReceive(c)

SpecRemove == RemoveInit /\ [][RemoveNext]_vars

\* the keys of an items payload
ItemKeys(items) == {items[i][1] : i \in DOMAIN items}

MaxClientOps == 2
MaxListeners == 2
TableClient == "s1"
ListenerIds == {"L1", "L2"}
CacheSizes == {1}
Configs == {"cache_size_1"}

ClientLast(op, c, arg, exc) == [op |-> op, session |-> c, arg |-> arg, exc |-> exc]

\* the calls and events that are counted: get, fetch_items, a pushed event,
\* set_cache_size and on_connected
ClientOp(c) ==
    /\ clientOps < MaxClientOps
    /\ clientOps' = clientOps + 1

\* TableImpl.listen(callback), TableImpl.add_listener(listener)
ClientListen(c, l) ==
    /\ Len(_listeners[c]) < MaxListeners
    /\ \A i \in DOMAIN _listeners[c] : _listeners[c][i] # l
    /\ _listening' = [_listening EXCEPT ![c] = TRUE]
    /\ _listeners' = [_listeners EXCEPT ![c] = Append(@, l)]
    /\ notified' = [notified EXCEPT ![c] = <<>>]
    /\ last' = ClientLast("listen", c, l, NoError)
    /\ UNCHANGED <<closed, outbox, received, tableListeners, store, cache, events, iter,
                   proxies, clientOut, permVars, endpointVars, netVars, _config, _cache_size, clientOps, forwardVars>>

\* the function that TableImpl.listen returned is called, or remove_listener
ClientUnlisten(c, l) ==
    /\ \E i \in DOMAIN _listeners[c] : _listeners[c][i] = l
    /\ _listeners' = [_listeners EXCEPT ![c] = SelectSeq(@, LAMBDA x : x # l)]
    /\ notified' = [notified EXCEPT ![c] = <<>>]
    /\ last' = ClientLast("unlisten", c, l, NoError)
    /\ UNCHANGED <<closed, outbox, received, tableListeners, store, cache, events, iter,
                   proxies, clientOut, permVars, endpointVars, netVars, _listening, _config,
                   _cache_size, clientOps, forwardVars>>

\* TableImpl.set_config(config)
ClientSetConfig(c, config) ==
    /\ _config' = [_config EXCEPT ![c] = config]
    /\ notified' = [notified EXCEPT ![c] = <<>>]
    /\ last' = ClientLast("set_config", c, config, NoError)
    /\ UNCHANGED <<closed, outbox, received, tableListeners, store, cache, events, iter,
                   proxies, clientOut, permVars, endpointVars, netVars, _listeners,
                   _listening, _cache_size, clientOps, forwardVars>>

\* TableImpl.set_cache_size(size)
ClientSetCacheSize(c, size) ==
    /\ ClientOp(c)
    /\ _cache_size' = [_cache_size EXCEPT ![c] = size]
    /\ notified' = [notified EXCEPT ![c] = <<>>]
    /\ last' = ClientLast("set_cache_size", c, size, NoError)
    /\ UNCHANGED <<closed, outbox, received, tableListeners, store, cache, events, iter,
                   proxies, clientOut, permVars, endpointVars, netVars, _listeners,
                   _listening, _config, forwardVars>>

\* the packets that on_connected sends
ConfigSetPacket(key, config) == [type |-> "config_set", table |-> key, config |-> config]
ListenPacket(type, key) == [type |-> type, table |-> key, config |-> "None"]
ReplayPackets(c) ==
    (IF _config[c] # "None" THEN <<ConfigSetPacket(TableKey(c), _config[c])>> ELSE <<>>)
    \o (IF _listening[c] THEN <<ListenPacket("listen", TableKey(c))>> ELSE <<>>)
    \o (IF Len(proxies[c]) > 0 THEN <<ListenPacket("proxy_listen", TableKey(c))>> ELSE <<>>)

\* TableImpl.on_connected: the client has connected, or connected again
ClientConnected(c) ==
    /\ ClientOp(c)
    /\ clientOut' = [clientOut EXCEPT ![c] = @ \o ReplayPackets(c)]
    /\ notified' = [notified EXCEPT ![c] = <<>>]
    /\ last' = ClientLast("on_connected", c, ReplayPackets(c), NoError)
    /\ UNCHANGED <<closed, outbox, received, tableListeners, store, cache, events, iter,
                   proxies, permVars, endpointVars, netVars, _listeners, _listening, _config,
                   _cache_size, forwardVars>>

\* the server's item_get endpoint: the items of the table that have one of the keys
ServerGetItems(t, keys) ==
    SelectSeq(store[t], LAMBDA e : \E i \in DOMAIN keys : keys[i] = e[1])

\* TableImpl.get(key)
ClientGet(c, key) ==
    /\ ClientOp(c)
    /\ IF DictHas(cache[c], key)
       THEN /\ last' = ClientLast("get", c, key, NoError)
            /\ UNCHANGED cache
       ELSE LET res == ServerGetItems(TableKey(c), <<key>>) IN
            IF ParseFails(res)
            THEN /\ last' = ClientLast("get", c, key, "ValueError")
                 /\ UNCHANGED cache
            ELSE /\ cache' = [cache EXCEPT ![c] = DictUpdate(@, _parse_items(res))]
                 /\ last' = ClientLast("get", c, key, NoError)
    /\ notified' = [notified EXCEPT ![c] = <<>>]
    /\ UNCHANGED <<closed, outbox, received, tableListeners, store, events, iter, proxies,
                   clientOut, permVars, endpointVars, netVars, _listeners, _listening,
                   _config, _cache_size, forwardVars>>

FetchArgs(before, after, cursor) == [before |-> before, after |-> after, cursor |-> cursor]
\* TableImpl.fetch_items(before, after, cursor), called by the application
ClientFetchItems(c, before, after, cursor) ==
    /\ ClientOp(c)
    /\ IF FetchFails(c, before, after, cursor)
       THEN /\ last' = ClientLast("fetch_items", c, FetchArgs(before, after, cursor), "ValueError")
            /\ notified' = [notified EXCEPT ![c] = <<>>]
            /\ UNCHANGED cache
       ELSE LET page == fetch_items(c, before, after, cursor) IN
            /\ cache' = [cache EXCEPT ![c] = DictUpdate(@, page)]
            /\ notified' = [notified EXCEPT ![c] =
                   NotifyCacheUpdate(c, DictUpdate(cache[c], page))]
            /\ last' = ClientLast("fetch_items", c, FetchArgs(before, after, cursor), NoError)
    /\ UNCHANGED <<closed, outbox, received, tableListeners, store, events, iter, proxies,
                   clientOut, permVars, endpointVars, netVars, _listeners, _listening,
                   _config, _cache_size, forwardVars>>

\* the client's dispatcher calls the table's handler of a pushed packet
ClientPush(c, event) ==
    /\ ClientOp(c)
    /\ cache' = [cache EXCEPT ![c] = PushCache(c, event)]
    /\ notified' = [notified EXCEPT ![c] = PushNotifications(c, event)]
    /\ last' = TableLast("client_" \o event.type, c, event.table, event.items,
                         PushError(c, event))
    /\ UNCHANGED <<closed, outbox, received, tableListeners, store, events, iter, proxies,
                   clientOut, permVars, endpointVars, netVars, _listeners, _listening,
                   _config, _cache_size, forwardVars>>

\* the batches of the pushed events: one item, two items, and two items of which
\* the second is undecodable
PushItemMaps ==
    {<<<<"k1", serialize(<<"k1", "y">>)>>>>,
     <<<<"k3", serialize(<<"k3", "x">>)>>, <<"k1", serialize(<<"k1", "x">>)>>>>,
     <<<<"k3", serialize(<<"k3", "x">>)>>, <<"k2", BadBlob>>>>}
\* the events that the server pushes, for the client's table and for another table
PushEvents ==
    {TablePacket(type, "t1", items) :
        type \in {"item_add", "item_update", "item_remove"}, items \in PushItemMaps}
    \cup {TablePacket(type, "t2", <<<<"k1", serialize(<<"k1", "y">>)>>>>) :
        type \in {"item_add", "item_update", "item_remove"}}
    \cup {TablePacket("item_clear", t, <<>>) : t \in {"t1", "t2"}}

\* the server's table holds two items, the second of which may be undecodable
ClientStores ==
    {StoreOf(2), << <<"k1", serialize(<<"k1", "x">>)>>, <<"k2", BadBlob>> >>}

ClientInit ==
    /\ ClientsIdle
    /\ ForwardIdle
    /\ TablesIdle
    /\ NetIdle
    /\ PermissionsIdle
    /\ EndpointsIdle
    /\ IterIdle
    /\ \E d \in ClientStores : store = [t \in Tables |-> d]

ClientNext ==
    \/ \E l \in ListenerIds : ClientListen(TableClient, l)
    \/ \E l \in ListenerIds : ClientUnlisten(TableClient, l)
    \/ \E size \in CacheSizes : ClientSetCacheSize(TableClient, size)
    \/ Proxy(TableClient, "keep")
    \/ \E key \in {"k1", "k2", "k3"} : ClientGet(TableClient, key)
    \/ \E backward \in BOOLEAN :
          ClientFetchItems(TableClient, IF backward THEN MaxChunk ELSE 0,
                           IF backward THEN 0 ELSE MaxChunk, NoKey)
    \/ \E event \in PushEvents : ClientPush(TableClient, event)
    \/ \E type \in {"t1", "t2"}, items \in {<<>>, <<<<"k1", serialize(<<"k1", "x">>)>>>>} :
          OnProxy(TableClient, TableProxyData(type, 1, items))

SpecClient == ClientInit /\ [][ClientNext]_vars

\* a client that registers and removes listeners and proxies, sets its config, and
\* connects again and again
ReplayNext ==
    \/ \E l \in ListenerIds : ClientListen(TableClient, l)
    \/ \E l \in ListenerIds : ClientUnlisten(TableClient, l)
    \/ \E config \in Configs : ClientSetConfig(TableClient, config)
    \/ Proxy(TableClient, "keep")
    \/ Unproxy(TableClient, "keep")
    \/ ClientConnected(TableClient)

SpecReplay == ClientInit /\ [][ReplayNext]_vars

(***************************************************************************)
(* Events of another table.                                                *)
(***************************************************************************)
PushOps == {"client_item_add", "client_item_update", "client_item_remove",
            "client_item_clear"}

\* C21: a table that handles a proxy, item_add, item_update, item_remove or
\* item_clear event whose table identifier is not its own key leaves its cache as
\* it was, calls none of its listeners and none of its proxies, and sends nothing.
C21_IgnoresOtherTables ==
    [][/\ (last'.op \in PushOps /\ last'.table # TableKey(TableClient))
            => /\ cache' = cache
               /\ notified'[TableClient] = <<>>
               /\ clientOut' = clientOut
               /\ last'.exc = NoError
       /\ (last'.op = "_on_proxy" /\ last'.event.type # TableKey(TableClient))
            => /\ cache' = cache
               /\ notified'[TableClient] = <<>>
               /\ clientOut' = clientOut
               /\ last'.calls = <<>>
               /\ last'.exc = NoError]_vars
\* an item_clear event of table t2 has reached the table of t1 while it had a
\* cached item, a listener and a proxy
C21_Witness ==
    /\ last.op = "client_item_clear"
    /\ last.table # TableKey(TableClient)
    /\ Len(cache[TableClient]) > 0
    /\ Len(_listeners[TableClient]) > 0
    /\ Len(proxies[TableClient]) > 0

(***************************************************************************)
(* Batches with an item that does not deserialize.                         *)
(***************************************************************************)
Undecodable(items) == \E i \in DOMAIN items : deserialize(items[i][2]) = None
Aborted ==
    /\ last'.exc = "ValueError"
    /\ cache' = cache
    /\ notified'[TableClient] = <<>>

\* C22: when one item of an item_add or item_update batch, or of the response of
\* item_get or item_fetch, does not deserialize, the handler or call ends with a
\* decoding error, the cache is as it was before and no listener is called.
C22_BatchAtomicity ==
    [][/\ (/\ last'.op \in {"client_item_add", "client_item_update"}
           /\ last'.table = TableKey(TableClient)
           /\ Undecodable(last'.items)) => Aborted
       /\ (/\ last'.op = "get"
           /\ ~DictHas(cache[TableClient], last'.arg)
           /\ Undecodable(ServerGetItems(TableKey(TableClient), <<last'.arg>>)))
             => Aborted
       /\ (/\ last'.op = "fetch_items"
           /\ Undecodable(ServerFetchItems(TableKey(TableClient), last'.arg.before,
                                           last'.arg.after, last'.arg.cursor)))
             => Aborted]_vars
\* an item_add batch whose first item deserializes and whose second does not has
\* reached a table that has a listener and a cached item
C22_Witness ==
    /\ last.op = "client_item_add"
    /\ last.table = TableKey(TableClient)
    /\ Len(last.items) = 2
    /\ deserialize(last.items[1][2]) # None
    /\ deserialize(last.items[2][2]) = None
    /\ Len(_listeners[TableClient]) > 0
    /\ Len(cache[TableClient]) > 0

(***************************************************************************)
(* The cache_update notification.                                          *)
(***************************************************************************)
\* every registered listener had on_cache_update called with the cache as it is now
CacheUpdateDelivered(c) ==
    \A i \in DOMAIN _listeners[c] :
        \E j \in DOMAIN notified[c] :
            notified[c][j] = ListenerCall(_listeners[c][i], "on_cache_update", cache[c])

\* C23: every get on a cache miss, fetch_items and handled item_add, item_update,
\* item_remove or item_clear event that changes the cache is followed by an
\* on_cache_update call of every registered listener, with the cache as it is
\* after the change.
C23_CacheUpdateNotified ==
    [][(/\ last'.op \in {"get", "fetch_items"} \cup PushOps
        /\ cache'[TableClient] # cache[TableClient])
          => \A c \in {TableClient} : c = last'.session => CacheUpdateDelivered(c)']_vars

(***************************************************************************)
(* The size of the cache.                                                  *)
(***************************************************************************)
\* C24: after every get, fetch_items and handled item_add, item_update,
\* item_remove or item_clear event, the cache has at most as many entries as the
\* maximum cache size (1000, or what set_cache_size set).
C24_BoundedCache ==
    [][last'.op \in {"get", "fetch_items"} \cup PushOps
          => Len(cache'[TableClient]) <= _cache_size'[TableClient]]_vars

(***************************************************************************)
(* The replay when the client connects.                                    *)
(***************************************************************************)
\* the packets of a type that the table sent in this step
SentNow(c, type) ==
    {i \in (Len(clientOut[c]) + 1)..Len(clientOut'[c]) : clientOut'[c][i].type = type}

\* C25: on every connected event the table sends config_set exactly when a config
\* was set, listen exactly when at least one listener is registered at that
\* moment, and proxy_listen exactly when at least one proxy is registered at
\* that moment.
C25_ReconnectReplay ==
    [][last'.op = "on_connected"
          => /\ (SentNow(TableClient, "config_set") # {}) <=> (_config[TableClient] # "None")
             /\ (SentNow(TableClient, "listen") # {}) <=> (Len(_listeners[TableClient]) > 0)
             /\ (SentNow(TableClient, "proxy_listen") # {})
                    <=> (Len(proxies[TableClient]) > 0)]_vars

(***************************************************************************)
(* The namespace of registered permissions.                                *)
(***************************************************************************)
\* C26: a permission_register packet puts in the registry only permissions whose
\* identifier is a sub-path of the sending session's app identifier; a packet
\* with a permission outside that namespace ends with an error, and that
\* permission is not registered by it.
C26_RegisterNamespace ==
    [][last'.op = "handle_register"
          => /\ permission_registry \subseteq permission_registry'
             /\ \A p \in permission_registry' \ permission_registry :
                    is_subpart_of(p, session_app(last'.session))
             /\ \A i \in DOMAIN last'.ids :
                    ~is_subpart_of(last'.ids[i], session_app(last'.session))
                        => /\ last'.exc = "ValueError"
                           /\ last'.ids[i] \notin permission_registry' \ permission_registry]_vars
\* a session of app a has sent a packet with a permission of its own and one of
\* app b, which nobody had registered
C26_Witness ==
    /\ last.op = "handle_register"
    /\ last.session = "s1"
    /\ last.ids = <<PermWrite, PermB>>
    /\ last.exc = "ValueError"
    /\ PermWrite \in permission_registry
    /\ PermB \notin permission_registry

(***************************************************************************)
(* Grants and reconnects: s1 and s2 connect with the same token, s3 with   *)
(* another one; every session may require permissions.                     *)
(***************************************************************************)
GrantLists == {<<PermRead>>, <<PermRead, PermWrite>>, <<PermWrite, PermRead>>}

GrantNext ==
    \/ HandleRegister("s1", <<PermRead, PermWrite>>)
    \/ \E s \in Sessions, ids \in GrantLists : HandleRequire(s, ids)
    \/ \E i \in 1..MaxRequests : DashboardAccept(i)
    \/ \E i \in 1..MaxRequests : DashboardDeny(i)
    \/ \E s \in PermClosers : ConnectionClose(s)

SpecGrant == PermInit /\ [][GrantNext]_vars

\* the session's token has the grant that another session of the same token obtained
GrantedToOther(s, ids) ==
    \E i \in DOMAIN dashboard :
        /\ dashboard[i].state = "accepted"
        /\ dashboard[i].session # s
        /\ session_token(dashboard[i].session) = session_token(s)
        /\ dashboard[i].permissions = GrantsOf(session_token(s))
        /\ SeqSet(dashboard[i].permissions) = SeqSet(ids)

\* C27: once a grant is approved for a token, every session with that token has
\* has_permission true for each granted identifier, the grant is what a server
\* loads from the database, and it stays until the next approval; a
\* permission_require of the same set by another session with the token sends no
\* dashboard request; the grants of every other token are as they were.
C27_GrantsPersist ==
    [][/\ last'.op = "accepted"
            => /\ \A s \in Sessions :
                     IF session_token(s) = session_token(last'.session)
                     THEN \A p \in PermissionIds :
                              (\E i \in DOMAIN last'.ids : last'.ids[i] = p)
                                  => has_permission(s, p)'
                     ELSE GrantsOf(session_token(s))' = GrantsOf(session_token(s))
               /\ load_permissions(permission_db)' = session_permissions'
       /\ last'.op # "accepted"
            => /\ session_permissions' = session_permissions
               /\ permission_db' = permission_db
       /\ \A s \in Sessions :
            (/\ last'.op = "handle_require"
             /\ last'.session = s
             /\ GrantedToOther(s, last'.ids))
                => /\ dashboard' = dashboard
                   /\ request_id' = request_id
                   /\ outbox' = outbox
                   /\ last'.exc = NoError]_vars
\* s2 obtained a grant and its connection closed; s1, with the same token,
\* required the same permissions in another order; s3's token has another grant
C27_Witness ==
    /\ last.op = "handle_require"
    /\ last.session = "s1"
    /\ closed["s2"]
    /\ GrantedToOther("s1", last.ids)
    /\ last.ids # GrantsOf("tk1")
    /\ \A i \in DOMAIN last.ids : has_permission("s1", last.ids[i])
    /\ DictHas(session_permissions, "tk2")
    /\ GrantsOf("tk2") # GrantsOf("tk1")

(***************************************************************************)
(* The payload serializers.  A buffer is the sequence of the primitives    *)
(* that a ByteWriter wrote; a ByteReader reads them back in order and      *)
(* fails when the buffer is exhausted or holds another primitive.          *)
(***************************************************************************)
IntCell(n) == [tag |-> "int", int |-> n, str |-> "", bytes |-> <<>>]
StringCell(s) == [tag |-> "string", int |-> 0, str |-> s, bytes |-> <<>>]
ByteArrayCell(b) == [tag |-> "byte_array", int |-> 0, str |-> "", bytes |-> b]
write_int(buf, n) == Append(buf, IntCell(n))
write_string(buf, s) == Append(buf, StringCell(s))
write_byte_array(buf, b) == Append(buf, ByteArrayCell(b))
CanRead(buf, pos, tag) == pos \in DOMAIN buf /\ buf[pos].tag = tag
read_int(buf, pos) == buf[pos].int
read_string(buf, pos) == buf[pos].str
read_byte_array(buf, pos) == buf[pos].bytes

Decoded(value) == [ok |-> TRUE, value |-> value]
DecodingError == [ok |-> FALSE, value |-> <<>>]

CodecIdentifiers == Identifiers \cup EndpointIds
from_key(k) == CHOOSE id \in CodecIdentifiers : Identifier_key(id) = k
IsKey(k) == \E id \in CodecIdentifiers : Identifier_key(id) = k

\* EndpointRegisterPacket.serialize: the count, then per endpoint its key and the
\* key of its permission, or the empty string
WritePermission(value) ==
    StringCell(IF value # NoPermission THEN Identifier_key(value) ELSE "")
EndpointRegisterPacket_serialize(item) ==
    write_int(<<>>, Len(item))
    \o [j \in 1..(2 * Len(item)) |->
           IF j % 2 = 1 THEN StringCell(Identifier_key(item[(j + 1) \div 2][1]))
           ELSE WritePermission(item[j \div 2][2])]

\* EndpointRegisterPacket.deserialize that calls Identifier.from_key on every value
EndpointRegisterPacket_deserialize_no_none(item) ==
    IF ~CanRead(item, 1, "int") THEN DecodingError
    ELSE LET count == read_int(item, 1) IN
         IF \E i \in 1..count : \/ ~CanRead(item, 2 * i, "string")
                                \/ ~CanRead(item, 2 * i + 1, "string")
                                \/ ~IsKey(read_string(item, 2 * i))
                                \/ ~IsKey(read_string(item, 2 * i + 1))
         THEN DecodingError
         ELSE Decoded([i \in 1..count |->
                         <<from_key(read_string(item, 2 * i)),
                           from_key(read_string(item, 2 * i + 1))>>])
\* EndpointRegisterPacket.deserialize
EndpointRegisterPacket_deserialize(item) ==
    IF ~CanRead(item, 1, "int") THEN DecodingError
    ELSE LET count == read_int(item, 1) IN
         IF \E i \in 1..count : \/ ~CanRead(item, 2 * i, "string")
                                \/ ~CanRead(item, 2 * i + 1, "string")
                                \/ ~IsKey(read_string(item, 2 * i))
                                \/ /\ read_string(item, 2 * i + 1) # ""
                                   /\ ~IsKey(read_string(item, 2 * i + 1))
         THEN DecodingError
         ELSE Decoded([i \in 1..count |->
                         <<from_key(read_string(item, 2 * i)),
                           IF read_string(item, 2 * i + 1) # ""
                           THEN from_key(read_string(item, 2 * i + 1))
                           ELSE NoPermission>>])

\* EndpointDataPacket.serialize and deserialize
EndpointDataPacket_serialize(item) ==
    write_byte_array(write_int(write_string(<<>>, Identifier_key(item.id)), item.key),
                     item.data)
EndpointDataPacket_deserialize(item) ==
    IF \/ ~CanRead(item, 1, "string") \/ ~CanRead(item, 2, "int")
       \/ ~CanRead(item, 3, "byte_array") \/ ~IsKey(read_string(item, 1))
    THEN DecodingError
    ELSE Decoded([id |-> from_key(read_string(item, 1)), key |-> read_int(item, 2),
                  data |-> read_byte_array(item, 3)])

\* EndpointErrorPacket.serialize and deserialize
EndpointErrorPacket_serialize(item) ==
    write_string(write_int(write_string(<<>>, Identifier_key(item.id)), item.key),
                 item.error)
EndpointErrorPacket_deserialize(item) ==
    IF \/ ~CanRead(item, 1, "string") \/ ~CanRead(item, 2, "int")
       \/ ~CanRead(item, 3, "string") \/ ~IsKey(read_string(item, 1))
    THEN DecodingError
    ELSE Decoded([id |-> from_key(read_string(item, 1)), key |-> read_int(item, 2),
                  error |-> read_string(item, 3)])

\* the items of a table payload, written and read as (string, byte array) pairs
ReadItems(item, first, count) ==
    [i \in 1..count |-> <<read_string(item, first + 2 * (i - 1)),
                          read_byte_array(item, first + 2 * (i - 1) + 1)>>]
CanReadItems(item, first, count) ==
    \A i \in 1..count : /\ CanRead(item, first + 2 * (i - 1), "string")
                        /\ CanRead(item, first + 2 * (i - 1) + 1, "byte_array")

\* the loop that writes the items: per item its key and its bytes
WriteItems(buf, items) ==
    buf \o [j \in 1..(2 * Len(items)) |->
              IF j % 2 = 1 THEN StringCell(items[(j + 1) \div 2][1])
              ELSE ByteArrayCell(items[j \div 2][2])]

\* TableItemsSerielizer
TableItemsSerielizer_serialize(item) ==
    WriteItems(write_int(write_string(<<>>, item.type), Len(item.items)), item.items)
TableItemsSerielizer_deserialize(data) ==
    IF ~CanRead(data, 1, "string") \/ ~CanRead(data, 2, "int") THEN DecodingError
    ELSE IF ~CanReadItems(data, 3, read_int(data, 2)) THEN DecodingError
    ELSE Decoded([type |-> read_string(data, 1),
                  items |-> ReadItems(data, 3, read_int(data, 2))])

\* TableProxySerielizer
TableProxySerielizer_serialize(item) ==
    WriteItems(write_int(write_int(write_string(<<>>, item.type), item.key),
                         Len(item.items)),
               item.items)
TableProxySerielizer_deserialize(data) ==
    IF ~CanRead(data, 1, "string") \/ ~CanRead(data, 2, "int") \/ ~CanRead(data, 3, "int")
    THEN DecodingError
    ELSE IF ~CanReadItems(data, 4, read_int(data, 3)) THEN DecodingError
    ELSE Decoded([type |-> read_string(data, 1), key |-> read_int(data, 2),
                  items |-> ReadItems(data, 4, read_int(data, 3))])

PayloadKinds == {"endpoint_register", "endpoint_data", "endpoint_error", "table_items",
                 "table_proxy"}
Serialize(kind, x) ==
    CASE kind = "endpoint_register" -> EndpointRegisterPacket_serialize(x)
      [] kind = "endpoint_data" -> EndpointDataPacket_serialize(x)
      [] kind = "endpoint_error" -> EndpointErrorPacket_serialize(x)
      [] kind = "table_items" -> TableItemsSerielizer_serialize(x)
      [] kind = "table_proxy" -> TableProxySerielizer_serialize(x)
Deserialize(kind, data) ==
    CASE kind = "endpoint_register" -> EndpointRegisterPacket_deserialize(data)
      [] kind = "endpoint_data" -> EndpointDataPacket_deserialize(data)
      [] kind = "endpoint_error" -> EndpointErrorPacket_deserialize(data)
      [] kind = "table_items" -> TableItemsSerielizer_deserialize(data)
      [] kind = "table_proxy" -> TableProxySerielizer_deserialize(data)

\* the payloads: endpoint maps with no, one and two endpoints, with and without a
\* permission; empty and non-empty byte arrays and messages; item maps with no,
\* one and two items
CodecPermissions == {NoPermission, PermRead}
CodecEndpointMaps ==
    {<<>>}
    \cup {<< <<id, p>> >> : id \in {EpA, EpB}, p \in CodecPermissions}
    \cup {<< <<EpA, p>>, <<EpB, q>> >> : p \in CodecPermissions, q \in CodecPermissions}
    \cup {<< <<EpB, p>>, <<EpA, q>> >> : p \in CodecPermissions, q \in CodecPermissions}
CodecBytes == {<<>>, serialize(<<"k1", "x">>)}
CodecItemMaps ==
    {<<>>}
    \cup {<< <<"k1", b>> >> : b \in CodecBytes}
    \cup {<< <<"k2", b>>, <<"k1", c>> >> : b \in CodecBytes, c \in CodecBytes}
Payloads(kind) ==
    CASE kind = "endpoint_register" -> CodecEndpointMaps
      [] kind = "endpoint_data" ->
            [id : {EpServer, EpA, EpB}, key : {0, 1}, data : CodecBytes]
      [] kind = "endpoint_error" ->
            [id : {EpServer, EpA, EpB}, key : {0, 1}, error : {"", "not found"}]
      [] kind = "table_items" -> [type : {"t1"}, items : CodecItemMaps]
      [] kind = "table_proxy" -> [type : {"t1"}, key : {0, 1}, items : CodecItemMaps]

CodecLast(op, kind, x, data, y) ==
    [op |-> op, kind |-> kind, x |-> x, data |-> data, y |-> y]

CodecInit ==
    /\ ClientsIdle
    /\ ForwardIdle
    /\ TablesIdle
    /\ NetIdle
    /\ PermissionsIdle
    /\ EndpointsIdle
    /\ IterIdle
    /\ store = [t \in Tables |-> <<>>]

\* a payload is serialized
CodecSerialize(kind, x) ==
    /\ last.op # "serialize"
    /\ last' = CodecLast("serialize", kind, x, Serialize(kind, x), DecodingError)
    /\ UNCHANGED <<closed, outbox, received, tableListeners, store, cache, events, iter,
                   proxies, clientOut, permVars, endpointVars, netVars, clientVars, forwardVars>>

\* the bytes are deserialized
CodecDeserialize ==
    /\ last.op = "serialize"
    /\ last' = CodecLast("deserialize", last.kind, last.x, last.data,
                         Deserialize(last.kind, last.data))
    /\ UNCHANGED <<closed, outbox, received, tableListeners, store, cache, events, iter,
                   proxies, clientOut, permVars, endpointVars, netVars, clientVars, forwardVars>>

CodecNext ==
    \/ \E kind \in PayloadKinds : \E x \in Payloads(kind) : CodecSerialize(kind, x)
    \/ CodecDeserialize

SpecCodec == CodecInit /\ [][CodecNext]_vars

\* C28: an EndpointRegisterPacket, EndpointDataPacket, EndpointErrorPacket, table
\* items payload or table proxy payload that was serialized and then deserialized
\* is the payload that was serialized, also for an empty endpoint map, an empty
\* item map, an empty byte array and an endpoint without permission.
C28_RoundTrip ==
    last.op = "deserialize" => (last.y.ok /\ last.y.value = last.x)
\* an endpoint map whose first endpoint has no permission went through both
C28_Witness ==
    /\ last.op = "deserialize"
    /\ last.kind = "endpoint_register"
    /\ Len(last.x) = 2
    /\ last.x[1][2] = NoPermission
    /\ last.x[2][2] # NoPermission
    /\ last.y.ok

(***************************************************************************)
(* The receive loops while a permission request waits for the dashboard:   *)
(* Session.listen awaits the handlers of a packet before it receives the   *)
(* next packet of its session, and every session has its own loop.         *)
(***************************************************************************)
\* a suspension that stops the loops of all sessions
Suspended_all_sessions(s) ==
    \E i \in DOMAIN dashboard : dashboard[i].state = "waiting"
\* the session's loop is inside handle_require, which awaits the dashboard's decision
Suspended(s) ==
    \E i \in DOMAIN dashboard : dashboard[i].session = s /\ dashboard[i].state = "waiting"

\* the loop of a session receives a permission_register or permission_require packet
ListenRegister(s, permissions) == ~Suspended(s) /\ HandleRegister(s, permissions)
ListenRequire(s, ids) == ~Suspended(s) /\ HandleRequire(s, ids)

WaitNext ==
    \/ \E s \in Sessions, permissions \in RegisterLists : ListenRegister(s, permissions)
    \/ \E s \in Requirers, ids \in PermissionLists : ListenRequire(s, ids)
    \/ \E i \in 1..MaxRequests : DashboardAccept(i)
    \/ \E i \in 1..MaxRequests : DashboardDeny(i)
    \/ \E s \in PermClosers : ConnectionClose(s)

SpecWait == PermInit /\ [][WaitNext]_vars

\* the request of the session that the dashboard has not decided
AwaitsDecision(s) ==
    \E i \in DOMAIN dashboard : dashboard[i].session = s /\ dashboard[i].state = "waiting"

C30_IterateCursor ==
    [][/\ (iter.fetches > 0 /\ iter'.fetches = iter.fetches + 1)
            => iter'.cursor = iter.items[Len(iter.items)][1]
       /\ (iter.pc \in {"first_page", "page"} /\ iter.items = <<>> /\ iter' # iter)
            => iter'.pc = "done"]_vars

(***************************************************************************)
(* A call that the caller has no permission for.                           *)
(***************************************************************************)
\* the session was sent an endpoint_error packet for (id, key) in this step
ErrorSentNow(s, id, key) ==
    \E i \in (Len(outbox[s]) + 1)..Len(outbox'[s]) :
        /\ outbox'[s][i].type = "endpoint_error"
        /\ outbox'[s][i].id = id
        /\ outbox'[s][i].key = key

\* C31: when a session calls an endpoint that exists and that it has no permission
\* for, handle_call sends the caller an endpoint_error packet with the call's id
\* and key, or disconnects the caller's session with a reason.
C31_DenialSurfaced ==
    [][\A s \in Sessions :
          (/\ last'.op = "endpoint_call"
           /\ last'.session = s
           /\ DictHas(endpoints, last'.packet.id)
           /\ ~verify_permission(DictGet(endpoints, last'.packet.id), s))
             => \/ ErrorSentNow(s, last'.packet.id, last'.packet.key)
                \/ (closed'[s] /\ disconnectReason'[s] # NoError)]_vars

(***************************************************************************)
(* Calls forwarded to a session's endpoint.  handle_call awaits the send   *)
(* of SessionEndpoint.call before it records the call in _calls; the       *)
(* provider's loop is another task and may run while it is suspended.      *)
(***************************************************************************)
MaxCalls == 2
Provider == "s2"
Callers == {"s1", "s3"}
ForwardKeys == {1}

IssuedCall(caller, id, key) == [caller |-> caller, id |-> id, key |-> key]
RoutedResponse(id, key, found, to) == [id |-> id, key |-> key, found |-> found, to |-> to]

\* handle_call up to the await in endpoint.call
HandleCallBegin(session, packet) ==
    /\ Len(issued) < MaxCalls
    /\ LET got == get_endpoint(packet, session, outbox) IN
       IF ~got.found
       THEN /\ outbox' = Send(got.box, session,
                              EndpointErrorPacket(packet.id, packet.key,
                                                  NotFound(packet.id)))
            /\ last' = EpLast("endpoint_call", session, packet, "none", NoError)
            /\ UNCHANGED <<calling, issued>>
       ELSE IF ~verify_permission(got.endpoint, session)
       THEN /\ last' = EpLast("endpoint_call", session, packet, "none", "PermissionDenied")
            /\ UNCHANGED <<outbox, calling, issued>>
       ELSE LET r == Endpoint_call(got.endpoint, packet, session, "echo", got.box) IN
            /\ outbox' = r.box
            /\ last' = EpLast("endpoint_call", session, packet, got.endpoint.kind, r.exc)
            /\ calling' = IF r.exc = NoError
                          THEN Append(calling, [session |-> session, packet |-> packet])
                          ELSE calling
            /\ issued' = IF r.exc = NoError /\ got.endpoint.kind = "session"
                         THEN Append(issued, IssuedCall(session, packet.id, packet.key))
                         ELSE issued
    /\ UNCHANGED <<closed, received, tableListeners, store, cache, events, iter, proxies,
                   clientOut, permVars, endpointVars, netVars, clientVars, routed>>

\* handle_call resumes after endpoint.call: the call is recorded in _calls
HandleCallEnd(i) ==
    /\ i \in DOMAIN calling
    /\ _calls' = DictSet(_calls, <<calling[i].packet.id, calling[i].packet.key>>,
                         calling[i].session)
    /\ calling' = SubSeq(calling, 1, i - 1) \o SubSeq(calling, i + 1, Len(calling))
    /\ last' = EpLast("endpoint_call_end", calling[i].session, calling[i].packet,
                      "none", NoError)
    /\ UNCHANGED <<closed, outbox, received, tableListeners, store, cache, events, iter,
                   proxies, clientOut, permVars, endpoints, dispatched, netVars,
                   clientVars, issued, routed>>

\* handle_receive for a packet of the provider
HandleReceive(session, packet) ==
    /\ ~closed[session]
    /\ Len(routed) < MaxCalls
    /\ LET found == DictHas(_calls, <<packet.id, packet.key>>)
           to == IF found THEN DictGet(_calls, <<packet.id, packet.key>>) ELSE session
       IN  /\ outbox' = IF ~found
                        THEN Send(outbox, session,
                                  EndpointErrorPacket(packet.id, packet.key,
                                                      EndpointNotFound(packet.id)))
                        ELSE Send(outbox, to,
                                  EndpointDataPacket("endpoint_receive", packet.id,
                                                     packet.key, packet.data))
           /\ routed' = Append(routed, RoutedResponse(packet.id, packet.key, found, to))
    /\ last' = EpLast("endpoint_receive", session, packet, "none", NoError)
    /\ UNCHANGED <<closed, received, tableListeners, store, cache, events, iter, proxies,
                   clientOut, permVars, endpointVars, netVars, clientVars, calling, issued>>

\* handle_error for a packet of the provider
HandleError(session, packet) ==
    /\ ~closed[session]
    /\ Len(routed) < MaxCalls
    /\ LET found == DictHas(_calls, <<packet.id, packet.key>>)
           to == IF found THEN DictGet(_calls, <<packet.id, packet.key>>) ELSE session
       IN  /\ outbox' = IF ~found
                        THEN Send(outbox, session,
                                  EndpointErrorPacket(packet.id, packet.key,
                                                      NotFound(packet.id)))
                        ELSE Send(outbox, to,
                                  EndpointErrorPacket(packet.id, packet.key, packet.data))
           /\ routed' = Append(routed, RoutedResponse(packet.id, packet.key, found, to))
    /\ last' = EpLast("endpoint_error", session, packet, "none", NoError)
    /\ UNCHANGED <<closed, received, tableListeners, store, cache, events, iter, proxies,
                   clientOut, permVars, endpointVars, netVars, clientVars, calling, issued>>

\* the calls of the callers and the responses of the provider
ForwardCalls ==
    {[id |-> EpA, key |-> key, data |-> serialize(<<"k1", "x">>), callback |-> "none"] :
        key \in ForwardKeys}
ForwardReplies ==
    {[id |-> EpA, key |-> key, data |-> serialize(<<"k1", "y">>), callback |-> "none"] :
        key \in ForwardKeys}

\* a server on which the provider has registered its endpoint
ForwardInit ==
    /\ ClientsIdle
    /\ ForwardIdle
    /\ TablesIdle
    /\ NetIdle
    /\ store = [t \in Tables |-> <<>>]
    /\ IterIdle
    /\ request_id = 0
    /\ dashboard = <<>>
    /\ ready = [s \in Sessions |-> <<>>]
    /\ disconnectReason = [s \in Sessions |-> NoError]
    /\ permission_registry = {PermRead}
    /\ session_permissions \in LoadedGrants
    /\ permission_db = PermissionRows(session_permissions)
    /\ endpoints = << <<EpServer, ServerEndpoint(EpServer, PermRead)>>,
                      <<EpA, SessionEndpoint(Provider, EpA, PermRead)>> >>
    /\ _calls = <<>>
    /\ dispatched = 0

ForwardNext ==
    \/ \E s \in Callers, packet \in ForwardCalls : HandleCallBegin(s, packet)
    \/ \E i \in 1..MaxCalls : HandleCallEnd(i)
    \/ \E packet \in ForwardReplies : HandleReceive(Provider, packet)
    \/ \E packet \in ForwardReplies : HandleError(Provider, packet)

SpecForward == ForwardInit /\ [][ForwardNext]_vars

\* the calls forwarded for (id, key), in order, and the number of the first k
\* responses that are for (id, key)
IssuedFor(id, key) == SelectSeq(issued, LAMBDA c : c.id = id /\ c.key = key)
ResponsesFor(id, key, k) ==
    Cardinality({i \in 1..k : routed[i].id = id /\ routed[i].key = key})

\* C32: the j-th response of the provider for (id, key) is the response to the
\* j-th call forwarded for (id, key), and when it is delivered it is delivered to
\* the session that issued that call, also when two sessions use the same key.
C32_ResponseToCaller ==
    \A k \in DOMAIN routed :
        routed[k].found =>
            LET calls == IssuedFor(routed[k].id, routed[k].key)
                j == ResponsesFor(routed[k].id, routed[k].key, k)
            IN  j <= Len(calls) /\ calls[j].caller = routed[k].to

\* C33: when the provider's endpoint_receive for (id, key) is handled after the
\* call was forwarded to it, the call is found, whether or not handle_call has
\* resumed, and the response goes to a session that issued a call for (id, key).
C33_ForwardedCallFound ==
    [][last'.op = "endpoint_receive"
          => LET r == routed'[Len(routed')] IN
             (ResponsesFor(r.id, r.key, Len(routed)) < Len(IssuedFor(r.id, r.key)))
                => /\ r.found
                   /\ \E i \in DOMAIN issued :
                         /\ issued[i].id = r.id /\ issued[i].key = r.key
                         /\ issued[i].caller = r.to]_vars


\* the consumer keeps pulling from the generator and every fetch_items is answered
SpecIterFair == SpecIter /\ WF_vars(IterYield) /\ WF_vars(IterAdvance)

\* C34: iterate terminates: over an unmodified store of N items, for every page
\* size, direction and starting cursor, the generator makes at most N + 1
\* fetch_items calls and, once started, ends.
C34_IterateTerminates ==
    /\ [](iter.fetches <= Len(store[TableKey(IterClient)]) + 1)
    /\ [](iter.pc # "idle" => <>(iter.pc \in {"done", "error"}))

\* an iteration from a cursor has ended after more than two fetches
C34_Witness ==
    /\ iter.pc = "done"
    /\ iter.start # NoKey
    /\ iter.fetches > 2
    /\ Len(iter.yielded) > 0


\* the endpoint `id` is registered by a session that has closed
ProviderClosed(id) ==
    /\ DictHas(endpoints, id)
    /\ DictGet(endpoints, id).kind = "session"
    /\ closed[DictGet(endpoints, id).session]

\* C35: a call to an endpoint whose registering session has closed ends with an
\* endpoint_error packet for the call's id and key sent to the caller, and no
\* endpoint of a closed session stays in the server's endpoint table.
C35_ClosedProvider ==
    /\ [][\A s \in Sessions :
             (/\ last'.op = "endpoint_call"
              /\ last'.session = s
              /\ ProviderClosed(last'.packet.id))
                => ErrorSentNow(s, last'.packet.id, last'.packet.key)]_vars
    /\ [](\A i \in DOMAIN endpoints : ~ProviderClosed(endpoints[i][1]))


\* C36: grants are monotonic: a permission that a token holds is still held by
\* it after any later approval of a permission_require made with the same token.
C36_GrantsMonotonic ==
    [][last'.op = "accepted"
          => \A s \in Sessions, p \in PermissionIds :
                (session_token(s) = session_token(last'.session) /\ has_permission(s, p))
                    => has_permission(s, p)']_vars


\* the dashboard decides every request it is asked
SpecPermFair ==
    SpecPerm /\ \A i \in 1..MaxRequests : WF_vars(DashboardAccept(i) \/ DashboardDeny(i))

\* C37: every ready task that handle_require creates for a session is eventually
\* set, or the session is disconnected.
C37_ReadyTaskSettled ==
    \A s \in Sessions, k \in 1..MaxRequests :
        [](k \in DOMAIN ready[s]
              => <>((k \in DOMAIN ready[s] /\ ready[s][k]) \/ closed[s]))


\* the client's event loop keeps running the calls the application makes on the
\* table; when the transport connects again is up to the network
ReplayCalls ==
    \/ \E l \in ListenerIds : ClientListen(TableClient, l)
    \/ \E l \in ListenerIds : ClientUnlisten(TableClient, l)
    \/ \E config \in Configs : ClientSetConfig(TableClient, config)
    \/ Proxy(TableClient, "keep")
    \/ Unproxy(TableClient, "keep")
SpecReplayFair == SpecReplay /\ WF_vars(ReplayCalls)

\* the table has sent the server a packet of the type
HasSent(c, type) == \E i \in DOMAIN clientOut[c] : clientOut[c][i].type = type

\* C38: when listen (proxy) was called on a table after its client had connected
\* for the k-th time, the table eventually sends a listen (proxy_listen) packet,
\* unless the client connects again first.
C38_ListenWhileConnected ==
    \A k \in 1..MaxClientOps :
        /\ []((clientOps = k /\ _listening[TableClient] /\ ~HasSent(TableClient, "listen"))
                => <>(HasSent(TableClient, "listen") \/ clientOps > k))
        /\ []((clientOps = k /\ Len(proxies[TableClient]) > 0
                              /\ ~HasSent(TableClient, "proxy_listen"))
                => <>(HasSent(TableClient, "proxy_listen") \/ clientOps > k))


\* C39: the pending-call table holds only forwarded calls that await a response:
\* the step that routes an endpoint_receive or endpoint_error to the caller
\* removes the entry of its (id, key), and a call that a server-bound handler
\* has answered leaves no entry.
C39_PendingCallsOnly ==
    [][/\ (/\ last'.op \in {"endpoint_receive", "endpoint_error"}
           /\ DictHas(_calls, <<last'.packet.id, last'.packet.key>>))
              => ~DictHas(_calls', <<last'.packet.id, last'.packet.key>>)
       /\ (last'.op = "endpoint_call" /\ last'.invoked = "server")
              => ~DictHas(_calls', <<last'.packet.id, last'.packet.key>>)]_vars


\* C40: a register(*types) call of the dispatcher that raises because one of the
\* types is already registered adds none of its types to the dispatcher's
\* listener table or to the packet mapper.
C40_FailedRegisterNoEffect ==
    [][(last'.op = "register" /\ last'.exc = "ValueError")
          => /\ _packet_listeners' = _packet_listeners
             /\ packet_mapper' = packet_mapper]_vars

=============================================================================
